---------------------------- MODULE Spec2Model ----------------------------
(***************************************************************************)
(* Flashcard quizzer: the quiz-progression engine (strategies, session    *)
(* statistics, quiz engine) and the interactive runner that drives it.    *)
(*                                                                         *)
(* Strings are sequences of one-character strings.  A card carries an id  *)
(* that stands for the identity of the Python object (its position in the *)
(* card list, 0 for a card that is not in the list); the code itself only *)
(* ever reads term and definition.                                        *)
(***************************************************************************)
EXTENDS Integers, Sequences, FiniteSets, TLC

VARIABLES
    flashcards,    \* QuizEngine.flashcards
    strategy,      \* QuizEngine.strategy: the strategy instance and its private fields
    results,       \* QuizEngine.results: the outcome log
    stats,         \* QuizEngine.stats: SessionStats
    pc,            \* InteractiveQuiz.run: position in the loop
    flashcard,     \* InteractiveQuiz.run: local variable flashcard
    question_num,  \* InteractiveQuiz.run: local variable question_num
    output,        \* what output_fn was given, in order
    asked,         \* history: the cards the runner fetched, in order
    ret            \* history: the last operation called and what it returned or raised

vars == <<flashcards, strategy, results, stats, pc, flashcard, question_num,
          output, asked, ret>>

engineVars == <<flashcards, strategy, results, stats>>
runnerVars == <<pc, flashcard, question_num, output, asked>>

---------------------------------------------------------------------------
(* Bounds *)

MaxCards == 3      \* longest card list of a session driven by the runner
MaxCallCards == 1  \* longest card list when the operations are called in any order
MaxLog == 3        \* longest outcome log of a quiz run
MaxCallLog == 3    \* longest outcome log when the operations are called in any order
MaxStrategyCards == 2  \* longest card list when a strategy is called on its own
MaxStrategyLog == 3    \* longest outcome log when a strategy is called on its own
MaxDefLen == 2     \* longest definition when check_answer is called on its own
MaxStrLen == 3     \* longest answer when check_answer is called on its own
MaxTotal == 7      \* most answers recorded by a SessionStats on its own
MaxItems == 3      \* longest card list in a loaded document
MaxMainCards == 2  \* longest card list in the file given to main
MaxAskCards == 2   \* longest card list when questions are asked for repeatedly
MaxAskLog == 2     \* longest outcome log when questions are asked for repeatedly

---------------------------------------------------------------------------
(* Strings *)

UpperCase == <<"A", "B", "C", "D", "E", "F", "G", "H", "I", "J", "K", "L", "M",
               "N", "O", "P", "Q", "R", "S", "T", "U", "V", "W", "X", "Y", "Z">>
LowerCase == <<"a", "b", "c", "d", "e", "f", "g", "h", "i", "j", "k", "l", "m",
               "n", "o", "p", "q", "r", "s", "t", "u", "v", "w", "x", "y", "z">>

Whitespace == {" ", "\t", "\n", "\r"}

IsUpperChar(c) == \E i \in 1..Len(UpperCase) : UpperCase[i] = c
IsLowerChar(c) == \E i \in 1..Len(LowerCase) : LowerCase[i] = c

\* str.lower() on one character
lower_char(c) ==
    IF IsUpperChar(c)
    THEN LowerCase[CHOOSE i \in 1..Len(UpperCase) : UpperCase[i] = c]
    ELSE c

\* str.lower()
str_lower(s) == [i \in 1..Len(s) |-> lower_char(s[i])]

RECURSIVE str_lstrip(_)
str_lstrip(s) ==
    IF s # <<>> /\ Head(s) \in Whitespace THEN str_lstrip(Tail(s)) ELSE s

RECURSIVE str_rstrip(_)
str_rstrip(s) ==
    IF s # <<>> /\ s[Len(s)] \in Whitespace
    THEN str_rstrip(SubSeq(s, 1, Len(s) - 1))
    ELSE s

\* str.strip()
str_strip(s) == str_rstrip(str_lstrip(s))

\* str.replace(ch, "")
str_remove(s, ch) == SelectSeq(s, LAMBDA c : c # ch)

\* str.isupper(): at least one cased character and no lowercase one
str_isupper(s) ==
    /\ \E i \in 1..Len(s) : IsUpperChar(s[i])
    /\ \A i \in 1..Len(s) : ~IsLowerChar(s[i])

\* str.isalpha()
str_isalpha(s) ==
    /\ s # <<>>
    /\ \A i \in 1..Len(s) : IsUpperChar(s[i]) \/ IsLowerChar(s[i])

---------------------------------------------------------------------------
(* Floating point: Python floats are IEEE 754 binary64.  A natural number *)
(* of any size is a sequence of bits, least significant first, without    *)
(* leading zero bits; a float is mant * 2^exp with mant such a number of  *)
(* exactly 53 bits, or mant = <<>> for 0.0.                               *)

MantissaBits == 53

\* the number of bits of a natural number below 2^30
BitLength(n) ==
    CHOOSE l \in 0..30 : n < 2 ^ l /\ (l = 0 \/ n >= 2 ^ (l - 1))

BigOf(n) == [i \in 1..BitLength(n) |-> (n \div (2 ^ (i - 1))) % 2]

\* bit i of a, counted from 1 at the least significant end
Bit(a, i) == IF i <= Len(a) THEN a[i] ELSE 0

\* a without leading zero bits
BigTrim(a) ==
    LET ones == {i \in 1..Len(a) : a[i] = 1}
    IN  IF ones = {} THEN <<>>
        ELSE SubSeq(a, 1, CHOOSE i \in ones : \A j \in ones : j <= i)

\* the carry into bit i of a + b
Carry(a, b, i) ==
    IF \E j \in 1..(i - 1) :
           /\ Bit(a, j) = 1 /\ Bit(b, j) = 1
           /\ \A l \in (j + 1)..(i - 1) : Bit(a, l) + Bit(b, l) >= 1
    THEN 1 ELSE 0

BigPlus(a, b) ==
    LET n == (IF Len(a) > Len(b) THEN Len(a) ELSE Len(b)) + 1
    IN  BigTrim([i \in 1..n |-> (Bit(a, i) + Bit(b, i) + Carry(a, b, i)) % 2])

\* a * 2^n
BigShl(a, n) == IF a = <<>> THEN <<>> ELSE [i \in 1..n |-> 0] \o a

\* a * c for a small natural number c, by shifting and adding
RECURSIVE BigTimes(_, _)
BigTimes(a, c) ==
    IF c = 0 THEN <<>>
    ELSE BigPlus(IF c % 2 = 1 THEN a ELSE <<>>,
                 BigShl(BigTimes(a, c \div 2), 1))

BigLeq(a, b) ==
    \/ Len(a) < Len(b)
    \/ /\ Len(a) = Len(b)
       /\ \A i \in 1..Len(a) :
              a[i] > b[i] => \E j \in (i + 1)..Len(a) : a[j] < b[j]

\* the borrow into bit i of a - b
Borrow(a, b, i) ==
    IF \E j \in 1..(i - 1) :
           /\ Bit(a, j) < Bit(b, j)
           /\ \A l \in (j + 1)..(i - 1) : Bit(a, l) <= Bit(b, l)
    THEN 1 ELSE 0

\* a - b for a >= b
BigMinus(a, b) ==
    BigTrim([i \in 1..Len(a) |->
                 (Bit(a, i) + 2 - Bit(b, i) - Borrow(a, b, i)) % 2])

\* |a - b|
BigDistance(a, b) == IF BigLeq(b, a) THEN BigMinus(a, b) ELSE BigMinus(b, a)

FloatZero == [mant |-> <<>>, exp |-> 0]

\* p * 2^exp rounded to 53 bits, to nearest, ties to even
FloatRound(p, exp) ==
    IF p = <<>> THEN FloatZero
    ELSE IF Len(p) <= MantissaBits
    THEN [mant |-> [i \in 1..(MantissaBits - Len(p)) |-> 0] \o p,
          exp |-> exp - (MantissaBits - Len(p))]
    ELSE LET drop == Len(p) - MantissaBits
             kept == SubSeq(p, drop + 1, Len(p))
             guard == p[drop]
             sticky == \E i \in 1..(drop - 1) : p[i] = 1
             up == guard = 1 /\ (sticky \/ kept[1] = 1)
             rounded == IF up THEN BigPlus(kept, <<1>>) ELSE kept
         IN  IF Len(rounded) > MantissaBits
             THEN [mant |-> Tail(rounded), exp |-> exp + drop + 1]
             ELSE [mant |-> rounded, exp |-> exp + drop]

\* the least s with k * 2^s >= n, for 0 < k <= n
ShiftFor(k, n) ==
    CHOOSE s \in 0..30 : k * (2 ^ s) >= n /\ (s = 0 \/ k * (2 ^ (s - 1)) < n)

\* 2^e mod m for e <= 60
Pow2Mod(e, m) ==
    LET low == IF e <= 30 THEN e ELSE 30
    IN  (((2 ^ low) % m) * ((2 ^ (e - low)) % m)) % m

\* bit i, counted from 1 at the most significant end, of the binary
\* expansion of r / n for n <= r < 2n
QuotientBit(r, n, i) == ((r * Pow2Mod(i - 1, 2 * n)) % (2 * n)) \div n

\* int / int for 0 <= k <= n: the quotient correctly rounded, or
\* ZeroDivisionError
float_div(k, n) ==
    IF n = 0 THEN [raised |-> "ZeroDivisionError", value |-> FloatZero]
    ELSE IF k = 0 THEN [raised |-> "none", value |-> FloatZero]
    ELSE LET s == ShiftFor(k, n)
             r == k * (2 ^ s)
             count == MantissaBits + 1
             inexact == (r * Pow2Mod(count - 1, n)) % n # 0
             p == <<IF inexact THEN 1 ELSE 0>> \o
                  [i \in 1..count |-> QuotientBit(r, n, count + 1 - i)]
         IN  [raised |-> "none", value |-> FloatRound(p, 0 - s - count)]

\* float * c for a small natural number c that is a float exactly
float_times(x, c) == FloatRound(BigTimes(x.mant, c), x.exp)

\* the float is exactly the natural number n
FloatIs(x, n) ==
    IF n = 0 THEN x.mant = <<>>
    ELSE /\ x.mant # <<>>
         /\ IF x.exp < 0
            THEN x.mant = BigShl(BigOf(n), 0 - x.exp)
            ELSE BigShl(x.mant, x.exp) = BigOf(n)

---------------------------------------------------------------------------
(* Data model (models.py) *)

\* takes the two fields in the other order
Flashcard_swapped(id, term, definition) ==
    [id |-> id, term |-> definition, definition |-> term]

Flashcard(id, term, definition) ==
    [id |-> id, term |-> term, definition |-> definition]

QuizResult(card, user_answer, is_correct) ==
    [flashcard |-> card, user_answer |-> user_answer, is_correct |-> is_correct]

SessionStats ==
    [total_questions |-> 0, correct_answers |-> 0, incorrect_answers |-> 0,
     missed_terms |-> <<>>]

\* divides without the guard for an empty session
accuracy_unguarded(self) ==
    LET ratio == float_div(self.correct_answers, self.total_questions)
    IN  [raised |-> ratio.raised, value |-> float_times(ratio.value, 100)]

\* SessionStats.accuracy
accuracy(self) ==
    IF self.total_questions = 0
    THEN [raised |-> "none", value |-> FloatZero]
    ELSE LET ratio == float_div(self.correct_answers, self.total_questions)
         IN  [raised |-> ratio.raised,
              value |-> float_times(ratio.value, 100)]

\* tests whether the list holds anything at all
InList_nonempty(x, list) == list # <<>>

InList(x, list) == \E i \in 1..Len(list) : list[i] = x

\* appends the term on every miss
record_answer_always(self, is_correct, term) ==
    IF is_correct
    THEN [self EXCEPT !.total_questions = @ + 1,
                      !.correct_answers = @ + 1]
    ELSE [self EXCEPT !.total_questions = @ + 1,
                      !.incorrect_answers = @ + 1,
                      !.missed_terms = Append(@, term)]

\* SessionStats.record_answer
record_answer(self, is_correct, term) ==
    IF is_correct
    THEN [self EXCEPT !.total_questions = @ + 1,
                      !.correct_answers = @ + 1]
    ELSE [self EXCEPT !.total_questions = @ + 1,
                      !.incorrect_answers = @ + 1,
                      !.missed_terms =
                          IF term # <<>> /\ ~InList(term, @)
                          THEN Append(@, term)
                          ELSE @]

---------------------------------------------------------------------------
(* Strategies (strategies.py) *)

NoCard == Flashcard(-1, <<>>, <<>>)

Returned(self, value) == [self |-> self, raised |-> "none", value |-> value]
Raised(self, exc) == [self |-> self, raised |-> exc, value |-> NoCard]

\* the outcomes of random.shuffle on a list of n elements
Shuffles(n) ==
    {p \in [1..n -> 1..n] : \A i, j \in 1..n : p[i] = p[j] => i = j}

\* the one shuffle outcome used when no shuffle is drawn
NoShuffle(n) == [i \in 1..n |-> i]

SequentialStrategy == [kind |-> "sequential"]

RandomStrategy ==
    [kind |-> "random", shuffled_indices |-> <<>>, initialized |-> FALSE]

AdaptiveStrategy ==
    [kind |-> "adaptive", incorrect_terms |-> {}, correct_terms |-> {},
     pending_cards |-> <<>>, initialized |-> FALSE]

\* list[index] with a 0-based, non-negative index
HasIndex(list, index) == index < Len(list)
ListGet(list, index) == list[index + 1]

\* off by one: skips the first card
SequentialStrategy_get_next_flashcard_skip(self, cards, log) ==
    LET index == Len(log) + 1
    IN  IF HasIndex(cards, index)
        THEN Returned(self, ListGet(cards, index))
        ELSE Raised(self, "IndexError")

SequentialStrategy_get_next_flashcard(self, cards, log) ==
    LET index == Len(log)
    IN  IF HasIndex(cards, index)
        THEN Returned(self, ListGet(cards, index))
        ELSE Raised(self, "IndexError")

\* stops one card early
SequentialStrategy_has_more_questions_short(self, cards, log) ==
    Returned(self, Len(log) + 1 < Len(cards))

SequentialStrategy_has_more_questions(self, cards, log) ==
    Returned(self, Len(log) < Len(cards))

\* draws every index independently instead of shuffling
RandomStrategy_initialize_shuffle_draw(self, cards, shuffle) ==
    IF ~self.initialized
    THEN [self EXCEPT !.shuffled_indices =
                          [i \in 1..Len(cards) |-> shuffle[1] - 1],
                      !.initialized = TRUE]
    ELSE self

RandomStrategy_initialize_shuffle(self, cards, shuffle) ==
    IF ~self.initialized
    THEN [self EXCEPT !.shuffled_indices =
                          [i \in 1..Len(cards) |-> shuffle[i] - 1],
                      !.initialized = TRUE]
    ELSE self

\* advances a cursor of its own: the index list is rotated by one after
\* each card returned
RandomStrategy_get_next_flashcard_rotate(self, cards, log, shuffle) ==
    LET s1 == RandomStrategy_initialize_shuffle(self, cards, shuffle)
        s2 == [s1 EXCEPT !.shuffled_indices =
                             IF @ = <<>> THEN @ ELSE Append(Tail(@), Head(@))]
    IN  IF ~HasIndex(s1.shuffled_indices, Len(log))
        THEN Raised(s1, "IndexError")
        ELSE LET index == ListGet(s1.shuffled_indices, Len(log))
             IN  IF HasIndex(cards, index)
                 THEN Returned(s2, ListGet(cards, index))
                 ELSE Raised(s1, "IndexError")

RandomStrategy_get_next_flashcard(self, cards, log, shuffle) ==
    LET s1 == RandomStrategy_initialize_shuffle(self, cards, shuffle)
    IN  IF ~HasIndex(s1.shuffled_indices, Len(log))
        THEN Raised(s1, "IndexError")
        ELSE LET index == ListGet(s1.shuffled_indices, Len(log))
             IN  IF HasIndex(cards, index)
                 THEN Returned(s1, ListGet(cards, index))
                 ELSE Raised(s1, "IndexError")

RandomStrategy_has_more_questions(self, cards, log, shuffle) ==
    LET s1 == RandomStrategy_initialize_shuffle(self, cards, shuffle)
    IN  Returned(s1, Len(log) < Len(cards))

\* without the guard: every call copies and shuffles the list again
AdaptiveStrategy_initialize_again(self, cards, shuffle) ==
    [self EXCEPT !.pending_cards =
                     [i \in 1..Len(cards) |-> cards[shuffle[i]]],
                 !.initialized = TRUE]

AdaptiveStrategy_initialize(self, cards, shuffle) ==
    IF ~self.initialized
    THEN [self EXCEPT !.pending_cards =
                          [i \in 1..Len(cards) |-> cards[shuffle[i]]],
                      !.initialized = TRUE]
    ELSE self

\* a miss takes the term out of correct_terms again
AdaptiveStrategy_track_reopen(self, result) ==
    IF result.is_correct
    THEN [self EXCEPT !.correct_terms = @ \cup {result.flashcard.term},
                      !.incorrect_terms = @ \ {result.flashcard.term}]
    ELSE [self EXCEPT !.incorrect_terms = @ \cup {result.flashcard.term},
                      !.correct_terms = @ \ {result.flashcard.term}]

\* the tracking update both operations apply to one result
AdaptiveStrategy_track(self, result) ==
    IF result.is_correct
    THEN [self EXCEPT !.correct_terms = @ \cup {result.flashcard.term},
                      !.incorrect_terms = @ \ {result.flashcard.term}]
    ELSE [self EXCEPT !.incorrect_terms = @ \cup {result.flashcard.term}]

RECURSIVE AdaptiveStrategy_track_all(_, _)
AdaptiveStrategy_track_all(self, log) ==
    IF log = <<>>
    THEN self
    ELSE AdaptiveStrategy_track_all(AdaptiveStrategy_track(self, Head(log)),
                                    Tail(log))

\* takes the last such card of the list instead of the first
FirstIndex_last(list, terms, wanted) ==
    IF \E i \in 1..Len(list) : (list[i].term \in terms) = wanted
    THEN CHOOSE i \in 1..Len(list) :
             /\ (list[i].term \in terms) = wanted
             /\ \A j \in (i + 1)..Len(list) : (list[j].term \in terms) # wanted
    ELSE 0

\* the index of the first card of the list whose term is in the set
\* (wanted = TRUE) or is not in it (wanted = FALSE); 0 if there is none
FirstIndex(list, terms, wanted) ==
    IF \E i \in 1..Len(list) : (list[i].term \in terms) = wanted
    THEN CHOOSE i \in 1..Len(list) :
             /\ (list[i].term \in terms) = wanted
             /\ \A j \in 1..(i - 1) : (list[j].term \in terms) # wanted
    ELSE 0

\* fails when no card is due instead of falling back to the first pending card
AdaptiveStrategy_get_next_flashcard_strict(self, cards, log, shuffle) ==
    LET s1 == AdaptiveStrategy_initialize(self, cards, shuffle)
        s2 == IF log # <<>>
              THEN AdaptiveStrategy_track(s1, log[Len(log)])
              ELSE s1
        i1 == IF s2.incorrect_terms # {}
              THEN FirstIndex(s2.pending_cards, s2.incorrect_terms, TRUE)
              ELSE 0
        i2 == FirstIndex(s2.pending_cards, s2.correct_terms, FALSE)
    IN  IF i1 # 0 THEN Returned(s2, s2.pending_cards[i1])
        ELSE IF i2 # 0 THEN Returned(s2, s2.pending_cards[i2])
        ELSE Raised(s2, "IndexError")

AdaptiveStrategy_get_next_flashcard(self, cards, log, shuffle) ==
    LET s1 == AdaptiveStrategy_initialize(self, cards, shuffle)
        s2 == IF log # <<>>
              THEN AdaptiveStrategy_track(s1, log[Len(log)])
              ELSE s1
        i1 == IF s2.incorrect_terms # {}
              THEN FirstIndex(s2.pending_cards, s2.incorrect_terms, TRUE)
              ELSE 0
        i2 == FirstIndex(s2.pending_cards, s2.correct_terms, FALSE)
    IN  IF i1 # 0 THEN Returned(s2, s2.pending_cards[i1])
        ELSE IF i2 # 0 THEN Returned(s2, s2.pending_cards[i2])
        ELSE IF HasIndex(s2.pending_cards, 0)
             THEN Returned(s2, ListGet(s2.pending_cards, 0))
             ELSE Raised(s2, "IndexError")

\* counts the terms answered at all instead of the terms answered correctly
AdaptiveStrategy_has_more_questions_seen(self, cards, log, shuffle) ==
    LET s1 == AdaptiveStrategy_initialize(self, cards, shuffle)
        s2 == AdaptiveStrategy_track_all(s1, log)
    IN  Returned(s2, Cardinality(s2.correct_terms \cup s2.incorrect_terms)
                         < Len(cards))

AdaptiveStrategy_has_more_questions(self, cards, log, shuffle) ==
    LET s1 == AdaptiveStrategy_initialize(self, cards, shuffle)
        s2 == AdaptiveStrategy_track_all(s1, log)
    IN  Returned(s2, Cardinality(s2.correct_terms) < Len(cards))

\* the Adaptive strategy cycles through its pending list instead of
\* selecting by the outcomes
get_next_flashcard_cycling(self, cards, log, shuffle) ==
    CASE self.kind = "sequential" ->
             SequentialStrategy_get_next_flashcard(self, cards, log)
      [] self.kind = "random" ->
             RandomStrategy_get_next_flashcard(self, cards, log, shuffle)
      [] self.kind = "adaptive" ->
             LET s1 == AdaptiveStrategy_initialize(self, cards, shuffle)
             IN  Returned(s1, s1.pending_cards[(Len(log) % Len(cards)) + 1])

\* dispatch on the strategy's class
get_next_flashcard(self, cards, log, shuffle) ==
    CASE self.kind = "sequential" ->
             SequentialStrategy_get_next_flashcard(self, cards, log)
      [] self.kind = "random" ->
             RandomStrategy_get_next_flashcard(self, cards, log, shuffle)
      [] self.kind = "adaptive" ->
             AdaptiveStrategy_get_next_flashcard(self, cards, log, shuffle)

\* the Adaptive comparison admits equality: <= in place of <
has_more_questions_inclusive(self, cards, log, shuffle) ==
    CASE self.kind = "sequential" ->
             SequentialStrategy_has_more_questions(self, cards, log)
      [] self.kind = "random" ->
             RandomStrategy_has_more_questions(self, cards, log, shuffle)
      [] self.kind = "adaptive" ->
             LET r == AdaptiveStrategy_has_more_questions(self, cards, log,
                                                          shuffle)
             IN  Returned(r.self,
                          Cardinality(r.self.correct_terms) <= Len(cards))

has_more_questions(self, cards, log, shuffle) ==
    CASE self.kind = "sequential" ->
             SequentialStrategy_has_more_questions(self, cards, log)
      [] self.kind = "random" ->
             RandomStrategy_has_more_questions(self, cards, log, shuffle)
      [] self.kind = "adaptive" ->
             AdaptiveStrategy_has_more_questions(self, cards, log, shuffle)

\* the keys of get_strategy's dictionary
Sequential == <<"s", "e", "q", "u", "e", "n", "t", "i", "a", "l">>
Random == <<"r", "a", "n", "d", "o", "m">>
Adaptive == <<"a", "d", "a", "p", "t", "i", "v", "e">>

Modes == {Sequential, Random, Adaptive}

\* the value returned when no strategy is created
NoStrategy == [kind |-> "none"]

\* the class the dictionary holds for a key, instantiated
strategies(mode) ==
    CASE mode = Sequential -> SequentialStrategy
      [] mode = Random -> RandomStrategy
      [] mode = Adaptive -> AdaptiveStrategy

\* looks the name up without regard to letter case
get_strategy_anycase(mode) ==
    IF str_lower(mode) \notin Modes
    THEN [raised |-> "ValueError", value |-> NoStrategy]
    ELSE [raised |-> "none", value |-> strategies(str_lower(mode))]

\* strategy factory
get_strategy(mode) ==
    IF mode \notin Modes
    THEN [raised |-> "ValueError", value |-> NoStrategy]
    ELSE [raised |-> "none", value |-> strategies(mode)]

\* shuffles the list it is handed, not a copy of it
flashcards_argument_in_place(self, cards, shuffle) ==
    IF self.kind = "adaptive" /\ ~self.initialized
    THEN [i \in 1..Len(cards) |-> cards[shuffle[i]]]
    ELSE cards

\* the list handed to a strategy operation as flashcards, after the
\* operation: Sequential reads len(flashcards) and flashcards[index];
\* Random shuffles list(range(len(flashcards))), a list of its own;
\* Adaptive shuffles flashcards.copy(), a list of its own
flashcards_argument(self, cards, shuffle) ==
    CASE self.kind = "sequential" -> cards
      [] self.kind = "random" -> cards
      [] self.kind = "adaptive" -> cards

\* the shuffle outcomes a call on this instance can draw
ShuffleDraws(self, cards) ==
    IF self.kind # "sequential" /\ ~self.initialized
    THEN Shuffles(Len(cards))
    ELSE {NoShuffle(Len(cards))}

---------------------------------------------------------------------------
(* Quiz engine (quiz.py) *)

\* QuizEngine.has_next_question
has_next_question(strat, cards, log, shuffle) ==
    has_more_questions(strat, cards, log, shuffle)

\* leaves out the has_next_question test
get_next_question_unchecked(strat, cards, log, shuffle) ==
    get_next_flashcard(strat, cards, log, shuffle)

\* QuizEngine.get_next_question
get_next_question(strat, cards, log, shuffle) ==
    LET more == has_next_question(strat, cards, log, shuffle)
    IN  IF ~more.value
        THEN Raised(more.self, "StopIteration")
        ELSE get_next_flashcard(more.self, cards, log, shuffle)

\* compares the stripped strings without lowercasing them
check_answer_cased(card, user_answer) ==
    str_strip(card.definition) = str_strip(user_answer)

\* QuizEngine.check_answer
check_answer(card, user_answer) ==
    LET correct_answer == str_lower(str_strip(card.definition))
        user_answer_normalized == str_lower(str_strip(user_answer))
    IN  correct_answer = user_answer_normalized

\* records the normalised answer instead of the answer as typed
submit_answer_normalized(log, st, card, user_answer) ==
    LET is_correct == check_answer(card, user_answer)
        result == QuizResult(card, str_strip(user_answer), is_correct)
    IN  [value |-> result,
         results |-> Append(log, result),
         stats |-> record_answer(st, is_correct, card.term)]

\* QuizEngine.submit_answer: the result, the log and the stats after the call
submit_answer(log, st, card, user_answer) ==
    LET is_correct == check_answer(card, user_answer)
        result == QuizResult(card, user_answer, is_correct)
    IN  [value |-> result,
         results |-> Append(log, result),
         stats |-> record_answer(st, is_correct, card.term)]

\* QuizEngine.get_feedback: the lines of the message
get_feedback(result) ==
    IF result.is_correct
    THEN <<[text |-> "Correct!"]>>
    ELSE <<[text |-> "Incorrect."],
           [text |-> "Your answer: ", arg |-> result.user_answer],
           [text |-> "Correct answer: ", arg |-> result.flashcard.definition]>>

\* InteractiveQuiz._is_acronym
is_acronym(term) ==
    LET cleaned == str_remove(str_remove(str_remove(term, "."), "-"), "_")
    IN  Len(cleaned) >= 2 /\ str_isupper(cleaned) /\ str_isalpha(cleaned)

---------------------------------------------------------------------------
(* The cards and answers the model draws from (the test suites' cards) *)

DNS == <<"D", "N", "S">>
HTTP == <<"H", "T", "T", "P">>
SSH == <<"S", "S", "H">>
FTP == <<"F", "T", "P">>

\* short definitions: two words, mixed case
DomainName == <<"D", "o", "m", " ", "N">>
HyperText == <<"H", "y", "p", " ", "T">>
SecureShell == <<"S", "e", "c", " ", "S">>
FileTransfer == <<"F", "i", "l", " ", "T">>
WrongAnswer == <<"N", "o">>

\* term/definition pairs a card list is built from, in the order of
\* first use
CardValues ==
    <<<<DNS, DomainName>>, <<HTTP, HyperText>>,
      <<SSH, SecureShell>>, <<FTP, FileTransfer>>>>

\* the code compares terms only for equality, so a card list is drawn up to
\* renaming: its k-th distinct pair is CardValues[k]
FirstUseOrder(v) ==
    /\ v[1] = 1
    /\ \A i \in 2..Len(v) : \E j \in 1..(i - 1) : v[i] <= v[j] + 1

\* the non-empty card lists of at most max cards; a term may repeat
CardLists(max) ==
    UNION {{[i \in 1..n |-> Flashcard(i, CardValues[v[i]][1], CardValues[v[i]][2])] :
                v \in {w \in [1..n -> 1..n] : FirstUseOrder(w)}} :
           n \in 1..max}

\* a term and definition that belong to no card list
Gateway == <<"G", "W">>
GatewayDefinition == <<"G", "a", "t", "e">>

\* a card that belongs to no card list
ForeignCard == Flashcard(0, Gateway, GatewayDefinition)

\* what the user types for a card: its definition in another letter case
\* and with surrounding whitespace, or a wrong answer
RightAnswer(card) ==
    CASE card.term = DNS -> <<" ", " ", "D", "O", "M", " ", "N", " ">>
      [] card.term = HTTP -> <<"h", "y", "p", " ", "t">>
      [] card.term = SSH -> <<"\t", "S", "e", "c", " ", "S", "\n">>
      [] OTHER -> card.definition

UserAnswers(card) == {RightAnswer(card), WrongAnswer}

CardsOf(cards) == {cards[i] : i \in 1..Len(cards)}

---------------------------------------------------------------------------
(* Initial state: QuizEngine.__init__ on a card list and a fresh strategy, *)
(* InteractiveQuiz.__init__ on that engine                                *)

NoCall == [op |-> "none", raised |-> "none", value |-> FALSE]

Called(op, r) == [op |-> op, raised |-> r.raised, value |-> r.value]

InitWith(lists) ==
    /\ flashcards \in lists
    /\ strategy \in {get_strategy(mode).value : mode \in Modes}
    /\ results = <<>>
    /\ stats = SessionStats
    /\ pc = "start"
    /\ flashcard = NoCard
    /\ question_num = 0
    /\ output = <<>>
    /\ asked = <<>>
    /\ ret = NoCall

Init == InitWith(CardLists(MaxCallCards))

InitRunner == InitWith(CardLists(MaxCards))

---------------------------------------------------------------------------
(* The engine's operations, called in any order *)

\* the strategy consumes the log it is handed: the last outcome is popped
HasNextQuestion_consuming ==
    \E shuffle \in ShuffleDraws(strategy, flashcards) :
        LET r == has_next_question(strategy, flashcards, results, shuffle)
        IN  /\ strategy' = r.self
            /\ ret' = Called("has_next_question", r)
            /\ results' = SubSeq(results, 1, Len(results) - 1)
            /\ UNCHANGED <<flashcards, stats, runnerVars>>

HasNextQuestion ==
    \E shuffle \in ShuffleDraws(strategy, flashcards) :
        LET r == has_next_question(strategy, flashcards, results, shuffle)
        IN  /\ strategy' = r.self
            /\ ret' = Called("has_next_question", r)
            /\ UNCHANGED <<flashcards, results, stats, runnerVars>>

GetNextQuestion ==
    \E shuffle \in ShuffleDraws(strategy, flashcards) :
        LET r == get_next_question(strategy, flashcards, results, shuffle)
        IN  /\ strategy' = r.self
            /\ ret' = Called("get_next_question", r)
            /\ UNCHANGED <<flashcards, results, stats, runnerVars>>

\* gated on the quiz state: fails once no question remains
SubmitAnswer_gated ==
    /\ Len(results) < MaxCallLog
    /\ \E card \in CardsOf(flashcards) \cup {ForeignCard} :
       \E user_answer \in UserAnswers(card) :
           LET r == submit_answer(results, stats, card, user_answer)
               more == has_next_question(strategy, flashcards, results,
                                         NoShuffle(Len(flashcards))).value
           IN  /\ results' = IF more THEN r.results ELSE results
               /\ stats' = IF more THEN r.stats ELSE stats
               /\ ret' = [op |-> "submit_answer",
                          raised |-> IF more THEN "none" ELSE "StopIteration",
                          value |-> r.value, args |-> <<card, user_answer>>]
               /\ UNCHANGED <<flashcards, strategy, runnerVars>>

SubmitAnswer ==
    /\ Len(results) < MaxCallLog
    /\ \E card \in CardsOf(flashcards) \cup {ForeignCard} :
       \E user_answer \in UserAnswers(card) :
           LET r == submit_answer(results, stats, card, user_answer)
           IN  /\ results' = r.results
               /\ stats' = r.stats
               /\ ret' = [op |-> "submit_answer", raised |-> "none",
                          value |-> r.value, args |-> <<card, user_answer>>]
               /\ UNCHANGED <<flashcards, strategy, runnerVars>>

CheckAnswer ==
    \E card \in CardsOf(flashcards) \cup {ForeignCard} :
    \E user_answer \in UserAnswers(card) :
        /\ ret' = [op |-> "check_answer", raised |-> "none",
                   value |-> check_answer(card, user_answer)]
        /\ UNCHANGED <<engineVars, runnerVars>>

GetFeedback ==
    \E i \in 1..Len(results) :
        /\ ret' = [op |-> "get_feedback", raised |-> "none",
                   value |-> get_feedback(results[i])]
        /\ UNCHANGED <<engineVars, runnerVars>>

\* hands out the statistics and starts counting afresh
GetStats_reset ==
    /\ ret' = [op |-> "get_stats", raised |-> "none", value |-> stats]
    /\ stats' = SessionStats
    /\ UNCHANGED <<flashcards, strategy, results, runnerVars>>

GetStats ==
    /\ ret' = [op |-> "get_stats", raised |-> "none", value |-> stats]
    /\ UNCHANGED <<engineVars, runnerVars>>

Next ==
    \/ HasNextQuestion
    \/ GetNextQuestion
    \/ SubmitAnswer
    \/ CheckAnswer
    \/ GetFeedback
    \/ GetStats

Spec == Init /\ [][Next]_vars

---------------------------------------------------------------------------
(* InteractiveQuiz.run: the ask/check/report loop *)

Line(text) == [text |-> text]

\* the banner, question_num = 1
RunStart ==
    /\ pc = "start"
    /\ output' = output \o <<Line("banner"), Line("Starting Quiz!"), Line("banner")>>
    /\ question_num' = 1
    /\ pc' = "while"
    /\ UNCHANGED <<engineVars, flashcard, asked, ret>>

\* while True: the loop fetches whatever has_next_question returned
RunWhile_unchecked ==
    /\ pc = "while"
    /\ \E shuffle \in ShuffleDraws(strategy, flashcards) :
           LET r == has_next_question(strategy, flashcards, results, shuffle)
           IN  /\ strategy' = r.self
               /\ ret' = Called("has_next_question", r)
               /\ pc' = "fetch"
    /\ UNCHANGED <<flashcards, results, stats, flashcard, question_num,
                   output, asked>>

\* while self.engine.has_next_question()
RunWhile ==
    /\ pc = "while"
    /\ \E shuffle \in ShuffleDraws(strategy, flashcards) :
           LET r == has_next_question(strategy, flashcards, results, shuffle)
           IN  /\ strategy' = r.self
               /\ ret' = Called("has_next_question", r)
               /\ pc' = IF r.value THEN "fetch" ELSE "stats"
    /\ UNCHANGED <<flashcards, results, stats, flashcard, question_num,
                   output, asked>>

\* flashcard = self.engine.get_next_question(), then the two prompt lines;
\* an exception of get_next_question is not caught by run
RunFetch ==
    /\ pc = "fetch"
    /\ \E shuffle \in ShuffleDraws(strategy, flashcards) :
           LET r == get_next_question(strategy, flashcards, results, shuffle)
           IN  /\ strategy' = r.self
               /\ ret' = Called("get_next_question", r)
               /\ IF r.raised = "none"
                  THEN /\ flashcard' = r.value
                       /\ asked' = Append(asked, r.value)
                       /\ output' = output \o
                              <<[text |-> "Question", arg |-> question_num],
                                [text |-> IF is_acronym(r.value.term)
                                          THEN "What does stand for?"
                                          ELSE "What is?",
                                 arg |-> r.value.term]>>
                       /\ pc' = "input"
                  ELSE /\ pc' = "raised"
                       /\ UNCHANGED <<flashcard, asked, output>>
    /\ UNCHANGED <<flashcards, results, stats, question_num>>

\* what the user types at the prompt: the definition itself, the
\* definition in another letter case or with surrounding whitespace, or a
\* wrong answer
TypedAnswers(card) == UserAnswers(card) \cup {card.definition}

\* leaves the statistics as they were
RunAnswer_unrecorded ==
    /\ pc = "input"
    /\ Len(results) < MaxLog
    /\ \E user_answer \in TypedAnswers(flashcard) :
           LET r == submit_answer(results, stats, flashcard, user_answer)
           IN  /\ results' = r.results
               /\ stats' = stats
               /\ ret' = [op |-> "submit_answer", raised |-> "none",
                          value |-> r.value,
                          args |-> <<flashcard, user_answer>>]
               /\ output' = output \o get_feedback(r.value)
    /\ question_num' = question_num + 1
    /\ pc' = "while"
    /\ UNCHANGED <<flashcards, strategy, flashcard, asked>>

\* input_fn returns user_answer; submit_answer, get_feedback, output,
\* question_num += 1
RunAnswer ==
    /\ pc = "input"
    /\ Len(results) < MaxLog
    /\ \E user_answer \in TypedAnswers(flashcard) :
           LET r == submit_answer(results, stats, flashcard, user_answer)
           IN  /\ results' = r.results
               /\ stats' = r.stats
               /\ ret' = [op |-> "submit_answer", raised |-> "none",
                          value |-> r.value,
                          args |-> <<flashcard, user_answer>>]
               /\ output' = output \o get_feedback(r.value)
    /\ question_num' = question_num + 1
    /\ pc' = "while"
    /\ UNCHANGED <<flashcards, strategy, flashcard, asked>>

\* the except branch re-raises after its message: run ends without statistics
RunInterrupt_propagated ==
    /\ pc = "input"
    /\ output' = Append(output, Line("Quiz interrupted by user."))
    /\ pc' = "raised"
    /\ UNCHANGED <<engineVars, flashcard, question_num, asked, ret>>

\* input_fn raises KeyboardInterrupt: except branch, break
RunInterrupt ==
    /\ pc = "input"
    /\ output' = Append(output, Line("Quiz interrupted by user."))
    /\ pc' = "stats"
    /\ UNCHANGED <<engineVars, flashcard, question_num, asked, ret>>

\* reports question_num as the number of questions answered
RunStats_numbered ==
    /\ pc = "stats"
    /\ output' = Append(output,
                        [text |-> "stats",
                         arg |-> [stats EXCEPT
                                      !.total_questions = question_num]])
    /\ ret' = [op |-> "run", raised |-> "none", value |-> stats]
    /\ pc' = "done"
    /\ UNCHANGED <<engineVars, flashcard, question_num, asked>>

\* stats = self.engine.get_stats(); output_fn(str(stats)); return stats
RunStats ==
    /\ pc = "stats"
    /\ output' = Append(output, [text |-> "stats", arg |-> stats])
    /\ ret' = [op |-> "run", raised |-> "none", value |-> stats]
    /\ pc' = "done"
    /\ UNCHANGED <<engineVars, flashcard, question_num, asked>>

NextRunner ==
    \/ RunStart
    \/ RunWhile
    \/ RunFetch
    \/ RunAnswer
    \/ RunInterrupt
    \/ RunStats

SpecRunner == InitRunner /\ [][NextRunner]_vars

---------------------------------------------------------------------------
(* Notions the properties are stated in *)

\* what has_next_question would return in the current state (the value
\* does not depend on the shuffle a first call draws)
HasNextNow ==
    has_next_question(strategy, flashcards, results,
                      NoShuffle(Len(flashcards))).value

\* the runner's loop was left by the interruption signal
Interrupted == InList(Line("Quiz interrupted by user."), output)

\* the runner's loop was left because has_next_question returned False
LoopEnded == pc \in {"stats", "done"} /\ ~Interrupted

\* the term has a correct outcome in the log
AnsweredCorrectly(term) ==
    \E i \in 1..Len(results) :
        results[i].is_correct /\ results[i].flashcard.term = term

AllTermsAnsweredCorrectly ==
    \A c \in CardsOf(flashcards) : AnsweredCorrectly(c.term)

\* the last call was has_next_question and it returned False
SaidNoMore == ret.op = "has_next_question" /\ ret.value = FALSE

---------------------------------------------------------------------------
(* C1: with the Sequential strategy the runner asks flashcards[1],         *)
(* flashcards[2], ... in that order, each once, every answer is recorded   *)
(* for the card just asked, and after the n-th answer has_next_question    *)
(* is false, whatever the answers were.                                    *)
C1_SequentialInOrder ==
    strategy.kind = "sequential" =>
        /\ Len(asked) <= Len(flashcards)
        /\ \A i \in 1..Len(asked) : asked[i] = flashcards[i]
        /\ Len(results) <= Len(asked)
        /\ \A i \in 1..Len(results) : results[i].flashcard = asked[i]
        /\ HasNextNow = (Len(results) < Len(flashcards))
        /\ LoopEnded => Len(results) = Len(flashcards)

C1_Witness ==
    /\ strategy.kind = "sequential"
    /\ pc = "done"
    /\ Len(flashcards) = 3
    /\ Len(asked) = 3
    /\ stats.correct_answers = 2
    /\ stats.incorrect_answers = 1
    /\ ~HasNextNow

(* C2: with the Random strategy the runner asks pairwise different cards,  *)
(* exactly n of them when the loop ends by itself, together the whole card *)
(* list, and has_next_question is false after the n-th answer.             *)
C2_RandomEachOnce ==
    strategy.kind = "random" =>
        /\ \A i, j \in 1..Len(asked) : asked[i].id = asked[j].id => i = j
        /\ \A i \in 1..Len(asked) : asked[i] \in CardsOf(flashcards)
        /\ \A i \in 1..Len(results) : results[i].flashcard = asked[i]
        /\ HasNextNow = (Len(results) < Len(flashcards))
        /\ LoopEnded =>
               /\ Len(asked) = Len(flashcards)
               /\ Len(results) = Len(flashcards)
               /\ {asked[i] : i \in 1..Len(asked)} = CardsOf(flashcards)

C2_Witness ==
    /\ strategy.kind = "random"
    /\ pc = "done"
    /\ Len(flashcards) = 3
    /\ Len(asked) = 3
    /\ asked[1] = flashcards[3]
    /\ asked[2] = flashcards[1]
    /\ ~HasNextNow

(* C3: with the Adaptive strategy, whenever has_next_question returns      *)
(* False every distinct term of the card list has a correct outcome in the *)
(* log.                                                                    *)
C3_AdaptiveEndsOnlyWhenAllCorrect ==
    (strategy.kind = "adaptive" /\ SaidNoMore) => AllTermsAnsweredCorrectly

C5_AdaptiveEndsOnceAllCorrect ==
    (strategy.kind = "adaptive" /\ ret.op = "has_next_question"
        /\ AllTermsAnsweredCorrectly) => ret.value = FALSE

(* C7: submit_answer appends exactly one outcome (the card, the answer as  *)
(* given, the verdict of check_answer) to the end of the log, adds 1 to    *)
(* total_questions and to exactly one of correct_answers and               *)
(* incorrect_answers, appends the term to missed_terms only on an          *)
(* incorrect verdict for a term not yet listed, and returns that outcome.  *)
SubmitEffect(card, user_answer) ==
    LET verdict == check_answer(card, user_answer)
        outcome == [flashcard |-> card, user_answer |-> user_answer,
                    is_correct |-> verdict]
    IN  /\ results' = results \o <<outcome>>
        /\ ret'.value = outcome
        /\ ret'.raised = "none"
        /\ stats'.total_questions = stats.total_questions + 1
        /\ stats'.correct_answers =
               stats.correct_answers + (IF verdict THEN 1 ELSE 0)
        /\ stats'.incorrect_answers =
               stats.incorrect_answers + (IF verdict THEN 0 ELSE 1)
        /\ stats'.missed_terms =
               IF ~verdict /\ ~InList(card.term, stats.missed_terms)
               THEN stats.missed_terms \o <<card.term>>
               ELSE stats.missed_terms
        /\ UNCHANGED <<flashcards, strategy>>

C7_SubmitRecordsOneOutcome ==
    [][ret'.op = "submit_answer" => SubmitEffect(ret'.args[1], ret'.args[2])]_vars

C7_Witness ==
    /\ ret.op = "submit_answer"
    /\ ~ret.value.is_correct
    /\ Len(results) = 2
    /\ results[1].flashcard.term = ret.value.flashcard.term
    /\ ~results[1].is_correct
    /\ Len(stats.missed_terms) = 1
    /\ stats.incorrect_answers = 2

(* C8: missed_terms never lists a term twice, also when the term was       *)
(* answered incorrectly several times.                                     *)
C8_MissedTermsUnique ==
    \A i, j \in 1..Len(stats.missed_terms) :
        stats.missed_terms[i] = stats.missed_terms[j] => i = j

C8_Witness ==
    /\ Len(results) = 2
    /\ \A i \in 1..2 : ~results[i].is_correct
    /\ results[1].flashcard.term = results[2].flashcard.term
    /\ stats.incorrect_answers = 2
    /\ Len(stats.missed_terms) = 1

(* C10: get_next_question raises StopIteration exactly when                *)
(* has_next_question is false, in every mode, and then leaves the log and  *)
(* the stats as they were; otherwise it returns the card the strategy      *)
(* chooses for the current log.                                            *)
C10_NextQuestionExhausted ==
    [][ret'.op = "get_next_question" =>
          /\ results' = results
          /\ stats' = stats
          /\ IF HasNextNow
             THEN /\ ret'.raised = "none"
                  /\ ret'.value =
                         get_next_flashcard(strategy', flashcards, results,
                                            NoShuffle(Len(flashcards))).value
                  /\ ret'.value \in CardsOf(flashcards)
             ELSE /\ ret'.raised = "StopIteration"
                  /\ ret'.value = NoCard]_vars

C10_Witness ==
    /\ ret.op = "get_next_question"
    /\ ret.raised = "StopIteration"
    /\ strategy.kind = "adaptive"
    /\ Len(results) = 2

---------------------------------------------------------------------------
(* check_answer on its own: one call on a card with any definition and any *)
(* answer over a small alphabet                                            *)

CheckChars == {"a", "A", "B", " ", "\t"}

Strings(max) == UNION {[1..n -> CheckChars] : n \in 0..max}

InitCheck ==
    /\ flashcards \in {<<Flashcard(1, DNS, d)>> : d \in Strings(MaxDefLen) \ {<<>>}}
    /\ strategy = SequentialStrategy
    /\ results = <<>>
    /\ stats = SessionStats
    /\ pc = "start"
    /\ flashcard = NoCard
    /\ question_num = 0
    /\ output = <<>>
    /\ asked = <<>>
    /\ ret = NoCall

CheckAnswerString ==
    /\ ret = NoCall
    /\ \E user_answer \in Strings(MaxStrLen) :
           ret' = [op |-> "check_answer", raised |-> "none",
                   value |-> check_answer(flashcards[1], user_answer),
                   args |-> <<flashcards[1], user_answer>>]
    /\ UNCHANGED <<engineVars, runnerVars>>

NextCheck == CheckAnswerString

SpecCheck == InitCheck /\ [][NextCheck]_vars

\* the same letter, in the same or the other case
SameLetter(a, b) ==
    \/ a = b
    \/ \E i \in 1..Len(UpperCase) : {a, b} = {UpperCase[i], LowerCase[i]}

\* s[i..j] is s without its leading and trailing whitespace
IsCore(s, i, j) ==
    /\ \A k \in 1..(i - 1) : s[k] \in Whitespace
    /\ \A k \in (j + 1)..Len(s) : s[k] \in Whitespace
    /\ i <= j => (s[i] \notin Whitespace /\ s[j] \notin Whitespace)

Cores(s) ==
    {SubSeq(s, ij[1], ij[2]) :
        ij \in {x \in (1..(Len(s) + 1)) \X (0..Len(s)) :
                    x[2] >= x[1] - 1 /\ IsCore(s, x[1], x[2])}}

\* x and y differ only in letter case and in surrounding whitespace
SameUpToCaseAndPadding(x, y) ==
    \E cx \in Cores(x), cy \in Cores(y) :
        /\ Len(cx) = Len(cy)
        /\ \A k \in 1..Len(cx) : SameLetter(cx[k], cy[k])

\* the answers one step away from s: one whitespace character more or less
\* at either end, or one letter in the other case
Neighbours(s) ==
    {<<w>> \o s : w \in Whitespace} \cup {s \o <<w>> : w \in Whitespace}
    \cup UNION {{[s EXCEPT ![i] = c] :
                     c \in {u \in CheckChars : SameLetter(u, s[i])}} :
                 i \in 1..Len(s)}
    \cup (IF s # <<>> /\ Head(s) \in Whitespace THEN {Tail(s)} ELSE {})
    \cup (IF s # <<>> /\ s[Len(s)] \in Whitespace
          THEN {SubSeq(s, 1, Len(s) - 1)} ELSE {})

(* C6: check_answer is true exactly when the answer and the definition,    *)
(* each without its leading and trailing whitespace, are the same up to    *)
(* letter case; so answers that differ only in letter case or surrounding  *)
(* whitespace get the same verdict.                                        *)
C6_CheckAnswerNormalizes ==
    ret.op = "check_answer" =>
        LET card == ret.args[1]
            raw == ret.args[2]
        IN  /\ ret.value = SameUpToCaseAndPadding(raw, card.definition)
            /\ \A other \in Neighbours(raw) :
                   SameUpToCaseAndPadding(other, raw) =>
                       check_answer(card, other) = ret.value

C6_Witness ==
    /\ ret.op = "check_answer"
    /\ ret.value = TRUE
    /\ ret.args[1].definition = <<"a", "B">>
    /\ ret.args[2] = <<"\t", "A", "B">>

---------------------------------------------------------------------------
(* SessionStats on its own: answers are recorded one by one and the        *)
(* accuracy is read at any moment                                          *)

InitStats ==
    /\ flashcards = <<Flashcard(1, DNS, DomainName)>>
    /\ strategy = SequentialStrategy
    /\ results = <<>>
    /\ stats = SessionStats
    /\ pc = "start"
    /\ flashcard = NoCard
    /\ question_num = 0
    /\ output = <<>>
    /\ asked = <<>>
    /\ ret = NoCall

RecordAnswer ==
    /\ stats.total_questions < MaxTotal
    /\ \E is_correct \in BOOLEAN, term \in {DNS, HTTP, <<>>} :
           stats' = record_answer(stats, is_correct, term)
    /\ ret' = [op |-> "record_answer", raised |-> "none", value |-> FALSE]
    /\ UNCHANGED <<flashcards, strategy, results, runnerVars>>

Accuracy ==
    /\ LET r == accuracy(stats)
       IN  ret' = [op |-> "accuracy", raised |-> r.raised, value |-> r.value]
    /\ UNCHANGED <<engineVars, runnerVars>>

NextStats ==
    \/ RecordAnswer
    \/ Accuracy

SpecStats == InitStats /\ [][NextStats]_vars

\* x * n = 100 * k, exactly
ExactPercentage(x, k, n) ==
    IF k = 0 THEN x.mant = <<>>
    ELSE /\ x.mant # <<>>
         /\ x.exp < 0
         /\ BigTimes(x.mant, n) = BigShl(BigOf(100 * k), 0 - x.exp)

\* |x * n - 100 * k| <= 100 * k * 2^-51
RoundedPercentage(x, k, n) ==
    IF k = 0 THEN x.mant = <<>>
    ELSE /\ x.mant # <<>>
         /\ x.exp < 0
         /\ LET have == BigTimes(x.mant, n)
                want == BigShl(BigOf(100 * k), 0 - x.exp)
            IN  BigLeq(BigShl(BigDistance(have, want), 51), want)

(* C9, as stated: after N answers of which k are correct accuracy is       *)
(* exactly k/N*100 (accuracy * N = k * 100) when N > 0 and 0.0 when N = 0, *)
(* and no division by zero happens.                                        *)
C9_AccuracyExact ==
    ret.op = "accuracy" =>
        /\ ret.raised = "none"
        /\ IF stats.total_questions = 0
           THEN FloatIs(ret.value, 0)
           ELSE ExactPercentage(ret.value, stats.correct_answers,
                                stats.total_questions)

(* C9, amended: accuracy is the float (k/N)*100, within a relative error   *)
(* of 2^-51 of k/N*100, exactly 0.0 when N = 0 or k = 0 and exactly 100.0  *)
(* when k = N > 0, and no division by zero happens.                        *)
C9_AccuracyRounded ==
    ret.op = "accuracy" =>
        /\ ret.raised = "none"
        /\ IF stats.total_questions = 0
           THEN FloatIs(ret.value, 0)
           ELSE /\ RoundedPercentage(ret.value, stats.correct_answers,
                                     stats.total_questions)
                /\ stats.correct_answers = 0 => FloatIs(ret.value, 0)
                /\ stats.correct_answers = stats.total_questions =>
                       FloatIs(ret.value, 100)

C9_Witness ==
    /\ ret.op = "accuracy"
    /\ stats.total_questions = 3
    /\ stats.correct_answers = 2
    /\ ~ExactPercentage(ret.value, 2, 3)

---------------------------------------------------------------------------
(* A strategy on its own: get_next_flashcard and has_more_questions are    *)
(* called directly, in any order, on one card list and a log the caller    *)
(* extends between the calls                                               *)

InitStrategy == InitWith(CardLists(MaxStrategyCards))

StrategyHasMoreQuestions ==
    \E shuffle \in ShuffleDraws(strategy, flashcards) :
        LET r == has_more_questions(strategy, flashcards, results, shuffle)
        IN  /\ strategy' = r.self
            /\ ret' = Called("has_more_questions", r)
            /\ flashcards' = flashcards_argument(strategy, flashcards, shuffle)
            /\ UNCHANGED <<results, stats, runnerVars>>

StrategyGetNextFlashcard ==
    \E shuffle \in ShuffleDraws(strategy, flashcards) :
        LET r == get_next_flashcard(strategy, flashcards, results, shuffle)
        IN  /\ strategy' = r.self
            /\ ret' = Called("get_next_flashcard", r)
            /\ flashcards' = flashcards_argument(strategy, flashcards, shuffle)
            /\ UNCHANGED <<results, stats, runnerVars>>

\* the caller appends an outcome to the log it passes
LogOutcome ==
    /\ Len(results) < MaxStrategyLog
    /\ \E card \in CardsOf(flashcards) \cup {ForeignCard},
          is_correct \in BOOLEAN :
           results' = Append(results,
                             QuizResult(card,
                                        IF is_correct THEN RightAnswer(card)
                                        ELSE WrongAnswer,
                                        is_correct))
    /\ ret' = NoCall
    /\ UNCHANGED <<flashcards, strategy, stats, runnerVars>>

NextStrategy ==
    \/ StrategyHasMoreQuestions
    \/ StrategyGetNextFlashcard
    \/ LogOutcome

SpecStrategy == InitStrategy /\ [][NextStrategy]_vars

(* C11, as stated: for each of the three strategies, get_next_flashcard    *)
(* called directly while has_more_questions is false fails with an error   *)
(* instead of returning a card.                                            *)
C11_NextFailsWhenNoMore ==
    [][(ret'.op = "get_next_flashcard" /\ ~HasNextNow) =>
          (ret'.raised # "none" /\ ret'.value = NoCard)]_vars

(* C11, amended: called directly while has_more_questions is false,        *)
(* get_next_flashcard of the Sequential and of the Random strategy fails   *)
(* with IndexError; that of the Adaptive strategy does not fail, it        *)
(* returns a card of the list: the first pending card whose term is in     *)
(* incorrect_terms, else the first whose term is not in correct_terms,     *)
(* else the first pending card.                                            *)
C11_NextWhenNoMore ==
    [][(ret'.op = "get_next_flashcard" /\ ~HasNextNow) =>
          IF strategy'.kind = "adaptive"
          THEN LET pending == strategy'.pending_cards
                   missed == {i \in 1..Len(pending) :
                                 pending[i].term \in strategy'.incorrect_terms}
                   open == {i \in 1..Len(pending) :
                               pending[i].term \notin strategy'.correct_terms}
                   due == IF missed # {} THEN missed
                          ELSE IF open # {} THEN open
                          ELSE {1}
               IN  /\ ret'.raised = "none"
                   /\ ret'.value \in CardsOf(flashcards)
                   /\ \E i \in due :
                          /\ ret'.value = pending[i]
                          /\ \A j \in due : i <= j
          ELSE /\ ret'.raised = "IndexError"
               /\ ret'.value = NoCard]_vars

C11_Witness ==
    /\ strategy.kind = "adaptive"
    /\ ret.op = "get_next_flashcard"
    /\ ret.raised = "none"
    /\ ret.value \in CardsOf(flashcards)
    /\ Len(flashcards) = 2
    /\ ~HasNextNow

---------------------------------------------------------------------------
(* C12: once has_next_question is false it stays false whatever is         *)
(* submitted afterwards, in every mode, and what has_next_question returns *)
(* is that value; in Adaptive mode a term never leaves correct_terms, so a *)
(* miss after a correct answer does not reopen the quiz.                   *)
C12_NoMoreStaysNoMore ==
    [][/\ ~HasNextNow => ~HasNextNow'
       /\ ret'.op = "has_next_question" =>
              (ret'.raised = "none" /\ ret'.value = HasNextNow)
       /\ strategy.kind = "adaptive" =>
              strategy.correct_terms \subseteq strategy'.correct_terms]_vars

C12_Witness ==
    /\ strategy.kind = "adaptive"
    /\ SaidNoMore
    /\ Len(results) = 3
    /\ results[1].is_correct
    /\ results[1].flashcard \in CardsOf(flashcards)
    /\ ~results[3].is_correct
    /\ results[3].flashcard = results[1].flashcard
    /\ results[1].flashcard.term \in strategy.correct_terms
    /\ results[1].flashcard.term \in strategy.incorrect_terms

---------------------------------------------------------------------------
\* the positions of the output at which the final statistics were shown
StatsLines == {i \in 1..Len(output) : output[i].text = "stats"}

(* C13: the runner shows the final SessionStats exactly once, after its    *)
(* loop has exited, as the last thing it writes, both when                 *)
(* has_next_question returned False and when the input raised the          *)
(* interruption; the interruption ends the loop, is not propagated, and    *)
(* run returns the stats.                                                  *)
C13_StatsShownOnceAfterLoop ==
    /\ Cardinality(StatsLines) = (IF pc = "done" THEN 1 ELSE 0)
    /\ Interrupted => pc \in {"stats", "done"}
    /\ (pc = "stats" /\ ~Interrupted) => SaidNoMore
    /\ pc = "done" =>
           /\ StatsLines = {Len(output)}
           /\ output[Len(output)].arg = stats
           /\ ret = [op |-> "run", raised |-> "none", value |-> stats]
           /\ Interrupted =>
                  output[Len(output) - 1] = Line("Quiz interrupted by user.")

C13_Witness ==
    /\ pc = "done"
    /\ Interrupted
    /\ Len(results) = 1
    /\ Len(asked) = 2
    /\ Cardinality(StatsLines) = 1
    /\ ret.value.total_questions = 1

---------------------------------------------------------------------------
(* get_strategy on its own: one call on a mode name that is one of the     *)
(* three accepted names or differs from one of them a little               *)

\* str.upper() on one character
upper_char(c) ==
    IF IsLowerChar(c)
    THEN UpperCase[CHOOSE i \in 1..Len(LowerCase) : LowerCase[i] = c]
    ELSE c

\* the names one change away from a name: one letter in upper case, one
\* character dropped or doubled, one whitespace character added at either
\* end, a proper prefix; and the name in upper case
NearNames(name) ==
    {[name EXCEPT ![i] = upper_char(name[i])] : i \in 1..Len(name)}
    \cup {SubSeq(name, 1, i - 1) \o SubSeq(name, i + 1, Len(name)) :
             i \in 1..Len(name)}
    \cup {SubSeq(name, 1, i) \o SubSeq(name, i, Len(name)) :
             i \in 1..Len(name)}
    \cup {<<w>> \o name : w \in Whitespace}
    \cup {name \o <<w>> : w \in Whitespace}
    \cup {SubSeq(name, 1, i) : i \in 0..(Len(name) - 1)}
    \cup {[i \in 1..Len(name) |-> upper_char(name[i])]}

ModeNames ==
    Modes \cup UNION {NearNames(name) : name \in Modes}
          \cup {<<"i", "n", "v", "a", "l", "i", "d">>}

InitFactory ==
    /\ flashcards = <<Flashcard(1, DNS, DomainName)>>
    /\ strategy = NoStrategy
    /\ results = <<>>
    /\ stats = SessionStats
    /\ pc = "start"
    /\ flashcard = NoCard
    /\ question_num = 0
    /\ output = <<>>
    /\ asked = <<>>
    /\ ret = NoCall

GetStrategy ==
    /\ ret = NoCall
    /\ \E mode \in ModeNames :
           LET r == get_strategy(mode)
           IN  /\ strategy' = r.value
               /\ ret' = [op |-> "get_strategy", raised |-> r.raised,
                          value |-> r.value, args |-> <<mode>>]
    /\ UNCHANGED <<flashcards, results, stats, runnerVars>>

NextFactory == GetStrategy

SpecFactory == InitFactory /\ [][NextFactory]_vars

(* C14: get_strategy returns a strategy only for the exact lowercase names *)
(* "sequential", "random" and "adaptive" (a fresh Sequential, Random,      *)
(* Adaptive instance respectively); for every other string, a differently  *)
(* cased name such as "Sequential" included, it fails with ValueError and  *)
(* creates no strategy.                                                    *)
C14_FactoryExactNames ==
    ret.op = "get_strategy" =>
        LET mode == ret.args[1]
        IN  /\ mode = <<"s", "e", "q", "u", "e", "n", "t", "i", "a", "l">> =>
                   (ret.raised = "none" /\ strategy = SequentialStrategy)
            /\ mode = <<"r", "a", "n", "d", "o", "m">> =>
                   (ret.raised = "none" /\ strategy = RandomStrategy)
            /\ mode = <<"a", "d", "a", "p", "t", "i", "v", "e">> =>
                   (ret.raised = "none" /\ strategy = AdaptiveStrategy)
            /\ mode \notin {<<"s", "e", "q", "u", "e", "n", "t", "i", "a", "l">>,
                            <<"r", "a", "n", "d", "o", "m">>,
                            <<"a", "d", "a", "p", "t", "i", "v", "e">>} =>
                   (ret.raised = "ValueError" /\ strategy = NoStrategy)

C14_Witness ==
    /\ ret.op = "get_strategy"
    /\ ret.args[1] = <<"S", "e", "q", "u", "e", "n", "t", "i", "a", "l">>
    /\ ret.raised = "ValueError"
    /\ strategy = NoStrategy

---------------------------------------------------------------------------
(* Construction and loading: Flashcard.__post_init__, QuizEngine.__init__  *)
(* and FlashcardLoader._validate_and_parse on parsed JSON data.            *)
(*                                                                         *)
(* A JSON scalar is a record of its Python type and its content; a key     *)
(* that an object does not have is the value Absent.                       *)

Str(text) == [type |-> "str", text |-> text, num |-> 0]
Number(num) == [type |-> "int", text |-> <<>>, num |-> num]
None == [type |-> "NoneType", text |-> <<>>, num |-> 0]
Absent == [type |-> "absent", text |-> <<>>, num |-> 0]

\* bool(value)
truthy(value) ==
    CASE value.type = "str" -> value.text # <<>>
      [] value.type = "int" -> value.num # 0
      [] OTHER -> FALSE

\* isinstance(value, str)
isinstance_str(value) == value.type = "str"

\* tests only that the fields are not falsy
Flashcard_post_init_truthy(term, definition) ==
    IF ~truthy(term)
    THEN [raised |-> "ValueError", field |-> "term"]
    ELSE IF ~truthy(definition)
    THEN [raised |-> "ValueError", field |-> "definition"]
    ELSE [raised |-> "none", field |-> "none"]

\* Flashcard.__post_init__: the exception it raises, if any
Flashcard_post_init(term, definition) ==
    IF ~truthy(term) \/ ~isinstance_str(term)
    THEN [raised |-> "ValueError", field |-> "term"]
    ELSE IF ~truthy(definition) \/ ~isinstance_str(definition)
    THEN [raised |-> "ValueError", field |-> "definition"]
    ELSE [raised |-> "none", field |-> "none"]

\* accepts every card list
QuizEngine_init_unchecked(cards, strat) ==
    [raised |-> "none", flashcards |-> cards, strategy |-> strat,
     results |-> <<>>, stats |-> SessionStats]

\* QuizEngine.__init__: the exception it raises, or the fields it sets
QuizEngine_init(cards, strat) ==
    IF cards = <<>>
    THEN [raised |-> "ValueError", flashcards |-> <<>>,
          strategy |-> NoStrategy, results |-> <<>>, stats |-> SessionStats]
    ELSE [raised |-> "none", flashcards |-> cards, strategy |-> strat,
          results |-> <<>>, stats |-> SessionStats]

\* an element of the card list: a JSON object with some of the four keys,
\* or something that is not an object
Object(front, back, term, definition) ==
    [type |-> "dict", front |-> front, back |-> back, term |-> term,
     definition |-> definition]
NotObject ==
    [type |-> "str", front |-> Absent, back |-> Absent, term |-> Absent,
     definition |-> Absent]

\* the value under the key "cards" or "flashcards", or the root array
List(items) == [type |-> "list", items |-> items]
NotList == [type |-> "str", items |-> <<>>]
NoKey == [type |-> "absent", items |-> <<>>]

\* the parsed JSON document
RootList(items) ==
    [type |-> "list", items |-> items, cards |-> NoKey, flashcards |-> NoKey]
RootObject(cards, cards_and_flashcards) ==
    [type |-> "dict", items |-> <<>>, cards |-> cards,
     flashcards |-> cards_and_flashcards]
RootOther ==
    [type |-> "str", items |-> <<>>, cards |-> NoKey, flashcards |-> NoKey]

\* what the loader returns or raises; the message carries the index it names
Loaded(cards) ==
    [raised |-> "none", value |-> cards, message |-> "", index |-> -1]
LoadError(message, index) ==
    [raised |-> "ValueError", value |-> <<>>, message |-> message,
     index |-> index]

\* the loop over the elements, from element idx on, flashcards being the
\* cards made so far
RECURSIVE parse_items(_, _, _)
parse_items(flashcards_data, idx, cards) ==
    IF idx >= Len(flashcards_data)
    THEN Loaded(cards)
    ELSE LET item == ListGet(flashcards_data, idx)
             has_front_back ==
                 item.front.type # "absent" /\ item.back.type # "absent"
             has_term_definition ==
                 item.term.type # "absent" /\ item.definition.type # "absent"
             term == IF has_front_back THEN item.front ELSE item.term
             definition ==
                 IF has_front_back THEN item.back ELSE item.definition
         IN  IF item.type # "dict"
             THEN LoadError("Flashcard at index must be an object", idx)
             ELSE IF ~has_front_back /\ ~has_term_definition
             THEN LoadError("Flashcard at index must have keys", idx)
             ELSE IF Flashcard_post_init(term, definition).raised # "none"
             THEN LoadError("Invalid flashcard at index", idx)
             ELSE parse_items(flashcards_data, idx + 1,
                              Append(cards,
                                     Flashcard(idx + 1, term.text,
                                               definition.text)))

\* starts the loop at the second element
validate_and_parse_from_second(data) ==
    LET flashcards_data ==
            IF data.type = "list" THEN List(data.items)
            ELSE IF data.cards.type # "absent" THEN data.cards
            ELSE data.flashcards
    IN  IF data.type \notin {"list", "dict"}
        THEN LoadError("JSON root must be an array or object", -1)
        ELSE IF data.type = "dict" /\ data.cards.type = "absent"
                /\ data.flashcards.type = "absent"
        THEN LoadError("JSON object must contain cards or flashcards key", -1)
        ELSE IF flashcards_data.type # "list"
        THEN LoadError("Flashcards data must be a list", -1)
        ELSE IF Len(flashcards_data.items) = 0
        THEN LoadError("Flashcards list cannot be empty", -1)
        ELSE parse_items(flashcards_data.items, 1, <<>>)

\* FlashcardLoader._validate_and_parse
validate_and_parse(data) ==
    LET flashcards_data ==
            IF data.type = "list" THEN List(data.items)
            ELSE IF data.cards.type # "absent" THEN data.cards
            ELSE data.flashcards
    IN  IF data.type \notin {"list", "dict"}
        THEN LoadError("JSON root must be an array or object", -1)
        ELSE IF data.type = "dict" /\ data.cards.type = "absent"
                /\ data.flashcards.type = "absent"
        THEN LoadError("JSON object must contain cards or flashcards key", -1)
        ELSE IF flashcards_data.type # "list"
        THEN LoadError("Flashcards data must be a list", -1)
        ELSE IF Len(flashcards_data.items) = 0
        THEN LoadError("Flashcards list cannot be empty", -1)
        ELSE parse_items(flashcards_data.items, 0, <<>>)

\* the field values the model draws from: strings (empty, whitespace only,
\* ordinary) and values that are not strings (falsy and truthy)
FieldValues ==
    {Str(<<>>), Str(<<" ">>), Str(DNS), Str(DomainName),
     Number(0), Number(123), None}

\* the card list elements the model draws from
Items ==
    {Object(Str(DNS), Str(DomainName), Absent, Absent),
     Object(Absent, Absent, Str(HTTP), Str(HyperText)),
     Object(Str(SSH), Str(SecureShell), Str(<<>>), Number(0)),
     Object(Absent, Absent, Str(<<" ">>), Str(<<"\t">>)),
     NotObject,
     Object(Absent, Absent, Absent, Absent),
     Object(Str(DNS), Absent, Absent, Str(DomainName)),
     Object(Str(<<>>), Str(DomainName), Str(DNS), Str(DomainName)),
     Object(Absent, Absent, Str(HTTP), Number(456)),
     Object(Str(FTP), None, Absent, Absent)}

ItemLists(max) == UNION {[1..n -> Items] : n \in 0..max}

\* the documents the model draws from: every array of at most MaxItems
\* elements, and every object whose keys hold an array of at most one
\* element, something else, or are missing
KeyValues == {NoKey, NotList} \cup {List(items) : items \in ItemLists(1)}

Documents ==
    {RootList(items) : items \in ItemLists(MaxItems)}
    \cup {RootObject(c, f) : c \in KeyValues, f \in KeyValues}
    \cup {RootOther}

InitLoad ==
    /\ flashcards = <<>>
    /\ strategy = NoStrategy
    /\ results = <<>>
    /\ stats = SessionStats
    /\ pc = "start"
    /\ flashcard = NoCard
    /\ question_num = 0
    /\ output = <<>>
    /\ asked = <<>>
    /\ ret = NoCall

\* Flashcard(term=..., definition=...)
NewFlashcard ==
    /\ ret = NoCall
    /\ \E term \in FieldValues, definition \in FieldValues :
           LET r == Flashcard_post_init(term, definition)
           IN  ret' = [op |-> "Flashcard", raised |-> r.raised,
                       value |-> IF r.raised = "none"
                                 THEN Flashcard(1, term.text, definition.text)
                                 ELSE NoCard,
                       args |-> <<term, definition>>]
    /\ UNCHANGED <<engineVars, runnerVars>>

\* FlashcardLoader._validate_and_parse(data)
ValidateAndParse ==
    /\ ret = NoCall
    /\ \E data \in Documents :
           LET r == validate_and_parse(data)
           IN  ret' = [op |-> "validate_and_parse", raised |-> r.raised,
                       value |-> r.value, message |-> r.message,
                       index |-> r.index, args |-> <<data>>]
    /\ UNCHANGED <<engineVars, runnerVars>>

\* QuizEngine(cards, strategy) on the loaded card list or on an empty list
NewQuizEngine ==
    /\ ret.op \in {"none", "validate_and_parse"}
    /\ \E cards \in {<<>>} \cup (IF ret.op = "validate_and_parse"
                                 THEN {ret.value} ELSE {}),
          mode \in Modes :
           LET r == QuizEngine_init(cards, get_strategy(mode).value)
           IN  /\ flashcards' = r.flashcards
               /\ strategy' = r.strategy
               /\ results' = r.results
               /\ stats' = r.stats
               /\ ret' = [op |-> "QuizEngine", raised |-> r.raised,
                          value |-> FALSE, args |-> <<cards>>]
    /\ UNCHANGED runnerVars

NextLoad ==
    \/ NewFlashcard
    \/ ValidateAndParse
    \/ NewQuizEngine

SpecLoad == InitLoad /\ [][NextLoad]_vars

\* an engine has been constructed
EngineExists == strategy # NoStrategy

(* C15: an empty card list is always rejected: QuizEngine on an empty list *)
(* raises ValueError and constructs nothing, the loader raises ValueError  *)
(* on an empty card list, and every engine that exists holds at least one  *)
(* card.                                                                   *)
C15_EmptyListRejected ==
    /\ (ret.op = "QuizEngine" /\ Len(ret.args[1]) = 0) =>
           (ret.raised = "ValueError" /\ ~EngineExists)
    /\ (ret.op = "QuizEngine" /\ Len(ret.args[1]) > 0) =>
           (ret.raised = "none" /\ EngineExists /\ flashcards = ret.args[1])
    /\ (ret.op = "validate_and_parse"
            /\ \/ (ret.args[1].type = "list" /\ Len(ret.args[1].items) = 0)
               \/ (ret.args[1].type = "dict"
                     /\ ret.args[1].cards = List(<<>>))
               \/ (ret.args[1].type = "dict" /\ ret.args[1].cards = NoKey
                     /\ ret.args[1].flashcards = List(<<>>))) =>
           ret.raised = "ValueError"
    /\ (ret.op = "validate_and_parse" /\ ret.raised = "none") =>
           Len(ret.value) >= 1
    /\ EngineExists => Len(flashcards) >= 1

C15_Witness ==
    /\ ret.op = "QuizEngine"
    /\ ret.args[1] = <<>>
    /\ ret.raised = "ValueError"
    /\ ~EngineExists

\* a non-empty string
NonEmptyString(value) == value.type = "str" /\ Len(value.text) > 0

(* C16: constructing a Flashcard raises ValueError when its term or its    *)
(* definition is empty or is not a string and succeeds otherwise, keeping  *)
(* the fields as given (a whitespace-only string is accepted, nothing is   *)
(* trimmed); so every card made, by a direct construction or by the        *)
(* loader, has a non-empty term and a non-empty definition.                *)
C16_CardFieldsNonEmptyStrings ==
    /\ ret.op = "Flashcard" =>
           IF NonEmptyString(ret.args[1]) /\ NonEmptyString(ret.args[2])
           THEN /\ ret.raised = "none"
                /\ ret.value.term = ret.args[1].text
                /\ ret.value.definition = ret.args[2].text
           ELSE /\ ret.raised = "ValueError"
                /\ ret.value = NoCard
    /\ (ret.op = "validate_and_parse" /\ ret.raised = "none") =>
           \A i \in 1..Len(ret.value) :
               Len(ret.value[i].term) > 0 /\ Len(ret.value[i].definition) > 0
    /\ \A i \in 1..Len(flashcards) :
           Len(flashcards[i].term) > 0 /\ Len(flashcards[i].definition) > 0

C16_Witness ==
    /\ ret.op = "Flashcard"
    /\ ret.args[1] = Str(<<" ">>)
    /\ ret.args[2] = Str(DomainName)
    /\ ret.raised = "none"
    /\ ret.value.term = <<" ">>

---------------------------------------------------------------------------
(* cli.main: parse the arguments, load the card file, make the strategy    *)
(* and the engine, run the interactive quiz, return the exit code.  The    *)
(* user's interruption (KeyboardInterrupt) arrives while the program waits *)
(* at the answer prompt, where run handles it, or while main works outside *)
(* the try block of run, where it reaches main's handler.                  *)

\* a line printed to sys.stderr
ErrLine(text) == [text |-> text, stream |-> "stderr"]

\* main returns the exit code
Exit(code) == [op |-> "main", raised |-> "none", value |-> code]

\* the --mode arguments: the three choices and one that argparse refuses
ModeArguments == Modes \cup {[Sequential EXCEPT ![1] = "S"]}

\* what load_from_json does: the file is missing, or it holds one of the
\* documents
LoadOutcomes ==
    {[raised |-> "FileNotFoundError", value |-> <<>>]}
    \cup {[raised |-> r.raised, value |-> r.value] :
              r \in {validate_and_parse(RootList(items)) :
                         items \in ItemLists(MaxMainCards)}}

InitMain ==
    /\ flashcards = <<>>
    /\ strategy = NoStrategy
    /\ results = <<>>
    /\ stats = SessionStats
    /\ pc = "main"
    /\ flashcard = NoCard
    /\ question_num = 0
    /\ output = <<>>
    /\ asked = <<>>
    /\ ret = NoCall

\* parse_args, load_from_json, get_strategy, QuizEngine, InteractiveQuiz
MainStart ==
    /\ pc = "main"
    /\ \E mode \in ModeArguments, loaded \in LoadOutcomes :
           LET made == get_strategy(mode)
               engine == QuizEngine_init(loaded.value, made.value)
           IN  IF mode \notin Modes
               THEN \* argparse: error message, SystemExit(2)
                    /\ output' = Append(output, ErrLine("usage"))
                    /\ ret' = [op |-> "main", raised |-> "SystemExit",
                               value |-> 2]
                    /\ pc' = "exit"
                    /\ UNCHANGED engineVars
               ELSE IF loaded.raised # "none"
               THEN /\ output' = output \o <<Line("Loading flashcards"),
                                              ErrLine("Error")>>
                    /\ ret' = Exit(1)
                    /\ pc' = "exit"
                    /\ UNCHANGED engineVars
               ELSE IF made.raised # "none" \/ engine.raised # "none"
               THEN /\ output' = output \o <<Line("Loading flashcards"),
                                              Line("Loaded"),
                                              ErrLine("Error")>>
                    /\ ret' = Exit(1)
                    /\ pc' = "exit"
                    /\ UNCHANGED engineVars
               ELSE /\ output' = output \o <<Line("Loading flashcards"),
                                              Line("Loaded"),
                                              Line("Quiz mode")>>
                    /\ flashcards' = engine.flashcards
                    /\ strategy' = engine.strategy
                    /\ results' = engine.results
                    /\ stats' = engine.stats
                    /\ pc' = "start"
                    /\ ret' = ret
    /\ UNCHANGED <<flashcard, question_num, asked>>

\* returns 1, as for an error
MainInterrupt_error ==
    /\ pc \in {"main", "start", "while", "stats"}
    /\ output' = Append(output, ErrLine("Exiting..."))
    /\ ret' = Exit(1)
    /\ pc' = "exit"
    /\ UNCHANGED <<engineVars, flashcard, question_num, asked>>

\* KeyboardInterrupt outside the try block of run: main's handler
MainInterrupt ==
    /\ pc \in {"main", "start", "while", "stats"}
    /\ output' = Append(output, ErrLine("Exiting..."))
    /\ ret' = Exit(130)
    /\ pc' = "exit"
    /\ UNCHANGED <<engineVars, flashcard, question_num, asked>>

\* quiz.run() has returned: return 0
MainReturn ==
    /\ pc = "done"
    /\ ret' = Exit(0)
    /\ pc' = "exit"
    /\ UNCHANGED <<engineVars, flashcard, question_num, output, asked>>

NextMain ==
    \/ MainStart
    \/ MainInterrupt
    \/ MainReturn
    \/ RunStart
    \/ RunWhile
    \/ RunFetch
    \/ RunAnswer
    \/ RunInterrupt
    \/ RunStats

SpecMain == InitMain /\ [][NextMain]_vars

\* loading or validating the card file failed
LoadFailed == InList(ErrLine("Error"), output)

\* the interruption reached main's handler
InterruptReachedMain == InList(ErrLine("Exiting..."), output)

---------------------------------------------------------------------------
\* the session of the scenario: the cards DNS, HTTP, SSH, the Sequential
\* strategy, and the answers "definition of DNS", a wrong answer,
\* "definition of SSH" given to the cards in the order asked
ScenarioSession ==
    /\ flashcards = <<Flashcard(1, DNS, DomainName),
                      Flashcard(2, HTTP, HyperText),
                      Flashcard(3, SSH, SecureShell)>>
    /\ strategy.kind = "sequential"
    /\ Len(results) = 3
    /\ \A i \in 1..3 : results[i].flashcard = asked[i]
    /\ results[1].user_answer = DomainName
    /\ results[2].user_answer = WrongAnswer
    /\ results[3].user_answer = SecureShell

(* C18: with the cards DNS, HTTP, SSH, the Sequential strategy and the     *)
(* answers [definition of DNS, a wrong answer, definition of SSH] given to *)
(* the cards in the order asked, the final stats are total_questions 3,    *)
(* correct_answers 2, incorrect_answers 1, missed_terms exactly [HTTP].    *)
C18_ScenarioStats ==
    ScenarioSession =>
        /\ stats = [total_questions |-> 3, correct_answers |-> 2,
                    incorrect_answers |-> 1, missed_terms |-> <<HTTP>>]
        /\ asked = flashcards
        /\ pc = "done" => ret.value = stats

C18_Witness ==
    /\ ScenarioSession
    /\ pc = "done"
    /\ ret.op = "run"
    /\ ret.value.missed_terms = <<HTTP>>

---------------------------------------------------------------------------
\* what is wrong with an element of the card list, if anything; its fields
\* are those of the key pair the loader reads: front/back when the element
\* has both, term/definition otherwise
ItemDefect(item) ==
    LET front_back == item.front # Absent /\ item.back # Absent
        term_definition == item.term # Absent /\ item.definition # Absent
    IN  IF item.type # "dict" THEN "not an object"
        ELSE IF ~front_back /\ ~term_definition THEN "no key pair"
        ELSE IF front_back /\ NonEmptyString(item.front)
                /\ NonEmptyString(item.back) THEN "none"
        ELSE IF ~front_back /\ NonEmptyString(item.term)
                /\ NonEmptyString(item.definition) THEN "none"
        ELSE "bad field"

\* the card list of a document whose card list is a non-empty array
HasElements(data) ==
    \/ data.type = "list" /\ data.items # <<>>
    \/ data.type = "dict" /\ data.cards.type = "list"
           /\ data.cards.items # <<>>
    \/ data.type = "dict" /\ data.cards = NoKey
           /\ data.flashcards.type = "list" /\ data.flashcards.items # <<>>

Elements(data) ==
    IF data.type = "list" THEN data.items
    ELSE IF data.cards # NoKey THEN data.cards.items
    ELSE data.flashcards.items

---------------------------------------------------------------------------
\* the terms whose most recent outcome in the log is incorrect
LastOutcomeIncorrect ==
    {results[i].flashcard.term : i \in
        {k \in 1..Len(results) :
            /\ ~results[k].is_correct
            /\ \A j \in (k + 1)..Len(results) :
                   results[j].flashcard.term # results[k].flashcard.term}}

\* the terms with at least one correct outcome in the log
EverCorrect ==
    {results[i].flashcard.term : i \in
        {k \in 1..Len(results) : results[k].is_correct}}

(* C20: after any call of the Adaptive strategy's has_more_questions or    *)
(* get_next_flashcard with the log, incorrect_terms is the set of terms    *)
(* whose most recent outcome in the log is incorrect and correct_terms is  *)
(* the set of terms with at least one correct outcome in the log, also     *)
(* when several outcomes were appended since the strategy's previous call. *)
C20_AdaptiveSetsFollowLog ==
    (strategy.kind = "adaptive"
        /\ ret.op \in {"has_more_questions", "get_next_flashcard"}) =>
        /\ strategy.incorrect_terms = LastOutcomeIncorrect
        /\ strategy.correct_terms = EverCorrect

---------------------------------------------------------------------------
\* the pending cards whose term is in incorrect_terms, as positions
MissedPending ==
    {i \in 1..Len(strategy.pending_cards) :
        strategy.pending_cards[i].term \in strategy.incorrect_terms}

\* the pending cards whose term is not in correct_terms, as positions
OpenPending ==
    {i \in 1..Len(strategy.pending_cards) :
        strategy.pending_cards[i].term \notin strategy.correct_terms}

\* the card at the least position of a non-empty set of pending positions
FirstPending(positions) ==
    strategy.pending_cards[CHOOSE i \in positions : \A j \in positions : i <= j]

(* C21: the Adaptive get_next_flashcard returns the first card in          *)
(* pending-list order whose term is in incorrect_terms when there is one;  *)
(* when incorrect_terms is empty or holds the term of no pending card, the *)
(* first card in pending-list order whose term is not in correct_terms;    *)
(* and the first pending card only when neither rule finds a card.         *)
C21_AdaptiveSelectionPolicy ==
    (strategy.kind = "adaptive" /\ ret.op = "get_next_flashcard") =>
        /\ ret.raised = "none"
        /\ MissedPending # {} => ret.value = FirstPending(MissedPending)
        /\ (MissedPending = {} /\ OpenPending # {}) =>
               ret.value = FirstPending(OpenPending)
        /\ (MissedPending = {} /\ OpenPending = {}) =>
               ret.value = strategy.pending_cards[1]
        /\ ret.value = strategy.pending_cards[1] =>
               \/ 1 \in MissedPending
               \/ MissedPending = {} /\ 1 \in OpenPending
               \/ MissedPending = {} /\ OpenPending = {}

\* a missed card is returned ahead of a pending card never answered
C21_Witness ==
    /\ strategy.kind = "adaptive"
    /\ Len(strategy.pending_cards) = 2
    /\ ret.op = "get_next_flashcard"
    /\ ret.value.term \in strategy.incorrect_terms
    /\ ret.value = strategy.pending_cards[2]
    /\ strategy.pending_cards[1].term \notin strategy.correct_terms

\* incorrect_terms holds the term of no pending card: the second rule
C21_WitnessNoPendingMissed ==
    /\ strategy.kind = "adaptive"
    /\ Len(strategy.pending_cards) = 2
    /\ ret.op = "get_next_flashcard"
    /\ strategy.incorrect_terms = {Gateway}
    /\ strategy.correct_terms # {}
    /\ ret.value = strategy.pending_cards[2]

---------------------------------------------------------------------------
(* C22: for every non-empty card list, whenever the Adaptive               *)
(* has_more_questions is true, get_next_flashcard finds its card by one of *)
(* the two selection rules (a term in incorrect_terms, or a term not yet   *)
(* in correct_terms): the fallback that returns the first pending card is  *)
(* never taken while has_more_questions is true.                           *)
C22_NoFallbackWhileMore ==
    (strategy.kind = "adaptive" /\ ret.op = "get_next_flashcard"
        /\ HasNextNow) =>
        (MissedPending # {} \/ OpenPending # {})

---------------------------------------------------------------------------
\* a second instance of the strategy's class, on which nothing was called
FreshInstance ==
    CASE strategy.kind = "sequential" -> SequentialStrategy
      [] strategy.kind = "random" -> RandomStrategy
      [] strategy.kind = "adaptive" -> AdaptiveStrategy

\* the shuffle the strategy drew at its first use
HeldShuffle ==
    CASE strategy.kind = "sequential" -> NoShuffle(Len(flashcards))
      [] strategy.kind = "random" ->
             [i \in 1..Len(flashcards) |-> strategy.shuffled_indices[i] + 1]
      [] strategy.kind = "adaptive" ->
             CHOOSE p \in Shuffles(Len(flashcards)) :
                 strategy.pending_cards = [i \in 1..Len(flashcards) |->
                                              flashcards[p[i]]]

\* what the second instance returns for the same call when its first use
\* draws the same shuffle
FreshResult ==
    IF ret.op = "has_more_questions"
    THEN has_more_questions(FreshInstance, flashcards, results, HeldShuffle)
    ELSE get_next_flashcard(FreshInstance, flashcards, results, HeldShuffle)

(* C23: for every strategy class, what has_more_questions and              *)
(* get_next_flashcard return depends only on the card list, the log and    *)
(* the shuffle drawn at first use: two instances of the same class holding *)
(* the same shuffle return the same for the same card list and log,        *)
(* whatever was called with whatever logs on each of them before.          *)
C23_ResultsIndependentOfHistory ==
    ret.op \in {"has_more_questions", "get_next_flashcard"} =>
        ret = Called(ret.op, FreshResult)

---------------------------------------------------------------------------
\* the list holds every element of the set exactly once
IsPermutationOf(list, elements) ==
    /\ Len(list) = Cardinality(elements)
    /\ \A e \in elements : \E i \in 1..Len(list) : list[i] = e

\* the shuffled order a strategy holds: the index list of Random, the
\* pending list of Adaptive
ShuffledOrder(self) ==
    IF self.kind = "random" THEN self.shuffled_indices ELSE self.pending_cards

\* before the first call nothing is drawn; afterwards the order is a
\* permutation of the indices 0..n-1, or of the cards
ShuffleDrawn(self) ==
    IF ~self.initialized
    THEN ShuffledOrder(self) = <<>>
    ELSE IF self.kind = "random"
         THEN IsPermutationOf(self.shuffled_indices,
                              0..(Len(flashcards) - 1))
         ELSE IsPermutationOf(self.pending_cards, CardsOf(flashcards))

(* C24: the shuffle is drawn exactly once per strategy instance, by        *)
(* whichever of has_more_questions and get_next_flashcard is called first: *)
(* afterwards the Random strategy's index list is a permutation of         *)
(* 0..n-1 and the Adaptive strategy's pending list is a permutation of the *)
(* card list, no later operation changes either, and the card Random       *)
(* returns for a log of k outcomes is flashcards[shuffled_indices[k]].     *)
C24_ShuffleDrawnOnce ==
    [][strategy.kind \in {"random", "adaptive"} =>
          /\ ShuffleDrawn(strategy) /\ ShuffleDrawn(strategy')
          /\ ret'.op \in {"has_more_questions", "get_next_flashcard"} =>
                 strategy'.initialized
          /\ ret'.op = "none" => strategy'.initialized = strategy.initialized
          /\ strategy.initialized =>
                 /\ strategy'.initialized
                 /\ ShuffledOrder(strategy') = ShuffledOrder(strategy)
          /\ (strategy.kind = "random" /\ ret'.op = "get_next_flashcard"
                 /\ Len(results) < Len(flashcards)) =>
                 /\ ret'.raised = "none"
                 /\ ret'.value = flashcards[
                        strategy'.shuffled_indices[Len(results) + 1] + 1]]_vars

\* Random drew a shuffle that moved the cards and returned, for a log of
\* one outcome, the card its permutation names
C24_Witness ==
    /\ strategy.kind = "random"
    /\ strategy.shuffled_indices = <<1, 0>>
    /\ Len(results) = 1
    /\ ret.op = "get_next_flashcard"
    /\ ret.value = flashcards[1]

\* the Adaptive strategy holds a shuffle that moved the cards after
\* outcomes of both kinds were folded
C24_WitnessAdaptive ==
    /\ strategy.kind = "adaptive"
    /\ strategy.initialized
    /\ strategy.pending_cards # flashcards
    /\ strategy.correct_terms # {}
    /\ strategy.incorrect_terms # {}
    /\ ret.op = "get_next_flashcard"

---------------------------------------------------------------------------
(* The engine asked for questions repeatedly: has_next_question,           *)
(* get_next_question and the read-only operations are called any number of *)
(* times between the answers submitted for cards of the list               *)

InitAsk == InitWith(CardLists(MaxAskCards))

\* counts the misses only: a correct answer is logged but not recorded
AskSubmitAnswer_uncounted ==
    /\ Len(results) < MaxAskLog
    /\ \E card \in CardsOf(flashcards) :
       \E user_answer \in UserAnswers(card) :
           LET r == submit_answer(results, stats, card, user_answer)
           IN  /\ results' = r.results
               /\ stats' = IF r.value.is_correct THEN stats ELSE r.stats
               /\ ret' = [op |-> "submit_answer", raised |-> "none",
                          value |-> r.value, args |-> <<card, user_answer>>]
               /\ UNCHANGED <<flashcards, strategy, runnerVars>>

\* submit_answer for a card of the list
AskSubmitAnswer ==
    /\ Len(results) < MaxAskLog
    /\ \E card \in CardsOf(flashcards) :
       \E user_answer \in UserAnswers(card) :
           LET r == submit_answer(results, stats, card, user_answer)
           IN  /\ results' = r.results
               /\ stats' = r.stats
               /\ ret' = [op |-> "submit_answer", raised |-> "none",
                          value |-> r.value, args |-> <<card, user_answer>>]
               /\ UNCHANGED <<flashcards, strategy, runnerVars>>

NextAsk ==
    \/ HasNextQuestion
    \/ GetNextQuestion
    \/ AskSubmitAnswer
    \/ CheckAnswer
    \/ GetFeedback
    \/ GetStats

SpecAsk == InitAsk /\ [][NextAsk]_vars

\* the strategy drew its shuffle, or draws none
ShuffleFixed(self) == self.kind = "sequential" \/ self.initialized

\* what get_next_question returns in the state once the shuffle is fixed
NextQuestionOf(self, log) ==
    Called("get_next_question",
           get_next_question(self, flashcards, log,
                             NoShuffle(Len(flashcards))))

(* C25: get_next_question advances no cursor: in every mode, calling       *)
(* get_next_question and has_next_question any number of times with no     *)
(* submit_answer in between returns the same card each time.               *)
C25_NextQuestionRepeats ==
    [][ret'.op \in {"has_next_question", "get_next_question"} =>
          /\ results' = results
          /\ ret'.op = "get_next_question" =>
                 ret' = NextQuestionOf(strategy', results')
          /\ ShuffleFixed(strategy) =>
                 NextQuestionOf(strategy', results')
                     = NextQuestionOf(strategy, results)]_vars

\* Adaptive, two cards: after a miss the engine is asked again and again
\* and returns the missed card, which is not the first pending card
C25_Witness ==
    /\ strategy.kind = "adaptive"
    /\ Len(flashcards) = 2
    /\ Len(results) = 2
    /\ ~results[2].is_correct
    /\ ret.op = "get_next_question"
    /\ ret = NextQuestionOf(strategy, results)
    /\ ret.value = results[2].flashcard
    /\ ret.value = strategy.pending_cards[2]

---------------------------------------------------------------------------
\* the engine operations other than submit_answer
ReadOnlyOperations ==
    {"has_next_question", "get_next_question", "check_answer",
     "get_feedback", "get_stats"}

(* C26: submit_answer is the only engine operation that changes the        *)
(* outcome log or the SessionStats: has_next_question, get_next_question,  *)
(* check_answer, get_feedback and get_stats leave the log, the three       *)
(* counters and missed_terms unchanged.                                    *)
C26_OnlySubmitChangesLogAndStats ==
    [][/\ ret'.op \in ReadOnlyOperations =>
              /\ results' = results
              /\ stats'.total_questions = stats.total_questions
              /\ stats'.correct_answers = stats.correct_answers
              /\ stats'.incorrect_answers = stats.incorrect_answers
              /\ stats'.missed_terms = stats.missed_terms
       /\ (results' # results \/ stats' # stats) =>
              ret'.op = "submit_answer"
       /\ ret'.op = "get_stats" => ret'.value = stats]_vars

\* get_stats was called on an engine that holds outcomes of both kinds
C26_Witness ==
    /\ ret.op = "get_stats"
    /\ ret.value = stats
    /\ Len(results) = 2
    /\ stats.correct_answers = 1
    /\ stats.missed_terms # <<>>
    /\ strategy.kind = "adaptive"
    /\ strategy.initialized

---------------------------------------------------------------------------
\* the first list is an initial part of the second
IsPrefix(s, t) == Len(s) <= Len(t) /\ s = SubSeq(t, 1, Len(s))

(* C27: the outcome log is append-only: across any sequence of engine,     *)
(* strategy and runner operations the log at an earlier moment is a prefix *)
(* of the log at every later moment; no outcome is ever removed, reordered *)
(* or modified.                                                            *)
C27_LogAppendOnly ==
    [][/\ IsPrefix(results, results')
       /\ Len(results') <= Len(results) + 1
       /\ results' # results =>
              /\ ret'.op = "submit_answer"
              /\ results' = Append(results, ret'.value)]_vars

\* the engine was asked for a question after two different outcomes were
\* logged and folded by the Adaptive strategy
C27_Witness ==
    /\ Len(results) = 2
    /\ results[1] # results[2]
    /\ ret.op = "get_next_question"
    /\ strategy.kind = "adaptive"
    /\ strategy.correct_terms # {}
    /\ strategy.incorrect_terms # {}

---------------------------------------------------------------------------
\* the counters agree with the log
CountersFollowLog(st, log) ==
    /\ st.total_questions = st.correct_answers + st.incorrect_answers
    /\ st.total_questions = Len(log)
    /\ st.correct_answers =
           Cardinality({i \in 1..Len(log) : log[i].is_correct})

(* C28: in every reachable engine state, total_questions =                 *)
(* correct_answers + incorrect_answers = the length of the outcome log,    *)
(* correct_answers is the number of outcomes of the log that are correct,  *)
(* and no counter ever decreases.                                          *)
C28_CountersFollowLog ==
    [][/\ CountersFollowLog(stats, results)
       /\ stats'.total_questions >= stats.total_questions
       /\ stats'.correct_answers >= stats.correct_answers
       /\ stats'.incorrect_answers >= stats.incorrect_answers]_vars

\* an answer was submitted after outcomes of both kinds were counted
C28_Witness ==
    /\ ret.op = "submit_answer"
    /\ Len(results) = 2
    /\ results[1].is_correct /\ ~results[2].is_correct
    /\ stats.total_questions = 2
    /\ stats.correct_answers = 1
    /\ stats.incorrect_answers = 1

---------------------------------------------------------------------------
\* the positions of the log at which a term is answered incorrectly for the
\* first time
FirstMisses(log) ==
    {k \in 1..Len(log) :
        /\ ~log[k].is_correct
        /\ \A j \in 1..(k - 1) :
               log[j].is_correct
                   \/ log[j].flashcard.term # log[k].flashcard.term}

\* the terms answered incorrectly, each once, in the order of their first
\* incorrect outcome
MissedInOrder(log) ==
    [n \in 1..Cardinality(FirstMisses(log)) |->
        log[CHOOSE k \in FirstMisses(log) :
                Cardinality({j \in FirstMisses(log) : j <= k}) = n
           ].flashcard.term]

(* C29: in every reachable engine state, missed_terms lists exactly the    *)
(* distinct terms that have at least one incorrect outcome in the log, in  *)
(* the order of each term's first incorrect outcome; a term is never       *)
(* removed from it, also not when the term is later answered correctly.    *)
C29_MissedTermsFollowLog ==
    [][/\ stats.missed_terms = MissedInOrder(results)
       /\ \A i \in 1..Len(stats.missed_terms) :
              /\ i <= Len(stats'.missed_terms)
              /\ stats'.missed_terms[i] = stats.missed_terms[i]]_vars

\* a missed term stays listed after it was answered correctly
C29_Witness ==
    /\ ret.op = "submit_answer"
    /\ Len(results) = 2
    /\ ~results[1].is_correct
    /\ results[2].is_correct
    /\ results[2].flashcard.term = results[1].flashcard.term
    /\ stats.missed_terms = <<results[1].flashcard.term>>

---------------------------------------------------------------------------
(* C30: in an Adaptive quiz driven by the runner loop, where every         *)
(* submitted card is the one just returned by get_next_question, the card  *)
(* asked right after an incorrect answer is the card that was just missed, *)
(* and incorrect_terms never holds more than one term.                     *)
C30_MissedCardAskedAgain ==
    strategy.kind = "adaptive" =>
        /\ Cardinality(strategy.incorrect_terms) <= 1
        /\ \A i \in 1..Len(results) : results[i].flashcard = asked[i]
        /\ \A i \in 1..Len(results) :
               (~results[i].is_correct /\ i < Len(asked)) =>
                   asked[i + 1] = results[i].flashcard

\* the second card of the list was missed and asked again, then answered,
\* and another card was asked
C30_Witness ==
    /\ strategy.kind = "adaptive"
    /\ Len(flashcards) = 2
    /\ Len(asked) = 3
    /\ Len(results) >= 2
    /\ asked[1] = flashcards[2]
    /\ ~results[1].is_correct
    /\ asked[2] = asked[1]
    /\ results[2].is_correct
    /\ asked[3] # asked[1]
    /\ strategy.incorrect_terms = {}

---------------------------------------------------------------------------
\* no two cards of the list share a term
DistinctTerms ==
    \A i, j \in 1..Len(flashcards) :
        flashcards[i].term = flashcards[j].term => i = j

\* every outcome of the log is correct
OnlyCorrectAnswers == \A i \in 1..Len(results) : results[i].is_correct

(* C31: in an Adaptive quiz over n cards with pairwise distinct terms,     *)
(* driven by the runner's ask-then-submit loop, a card is never asked      *)
(* again after it has been answered correctly; hence when                  *)
(* has_more_questions is false correct_answers = n and total_questions =   *)
(* n + incorrect_answers, and a session with only correct answers asks     *)
(* exactly n questions.                                                    *)
C31_CorrectCardNotAskedAgain ==
    (strategy.kind = "adaptive" /\ DistinctTerms) =>
        /\ \A i \in 1..Len(results) :
               results[i].is_correct =>
                   \A j \in (i + 1)..Len(asked) :
                       /\ asked[j] # results[i].flashcard
                       /\ asked[j].term # results[i].flashcard.term
        /\ ~HasNextNow =>
               /\ stats.correct_answers = Len(flashcards)
               /\ stats.total_questions
                      = Len(flashcards) + stats.incorrect_answers
               /\ OnlyCorrectAnswers =>
                      /\ Len(asked) = Len(flashcards)
                      /\ stats.total_questions = Len(flashcards)

\* a two-card quiz ended after one miss: three questions, two correct
C31_Witness ==
    /\ strategy.kind = "adaptive"
    /\ DistinctTerms
    /\ Len(flashcards) = 2
    /\ SaidNoMore
    /\ Len(asked) = 3
    /\ stats.correct_answers = 2
    /\ stats.incorrect_answers = 1

\* a three-card quiz ended after three correct answers
C31_WitnessOnlyCorrect ==
    /\ strategy.kind = "adaptive"
    /\ DistinctTerms
    /\ Len(flashcards) = 3
    /\ SaidNoMore
    /\ OnlyCorrectAnswers
    /\ Len(asked) = 3

---------------------------------------------------------------------------
(* C32: no strategy operation changes the card list it is handed: its      *)
(* length, its order and its cards are the same after any sequence of      *)
(* has_more_questions and get_next_flashcard calls in any mode, because    *)
(* Random shuffles a list of indices and Adaptive shuffles a copy of its   *)
(* own.                                                                    *)
C32_CardListUnchanged ==
    [][/\ Len(flashcards') = Len(flashcards)
       /\ \A i \in 1..Len(flashcards) : flashcards'[i] = flashcards[i]
       /\ (strategy'.kind = "adaptive" /\ strategy'.initialized) =>
              IsPermutationOf(strategy'.pending_cards, CardsOf(flashcards'))
       /\ (strategy'.kind = "random" /\ strategy'.initialized) =>
              Len(strategy'.shuffled_indices) = Len(flashcards')]_vars

\* the Adaptive strategy holds the cards in another order than the list
\* after both operations were called on it
C32_Witness ==
    /\ strategy.kind = "adaptive"
    /\ strategy.initialized
    /\ Len(flashcards) = 2
    /\ flashcards[1].id = 1
    /\ strategy.pending_cards = <<flashcards[2], flashcards[1]>>
    /\ ret.op = "get_next_flashcard"
    /\ ret.value = flashcards[2]
    /\ Len(results) = 1

---------------------------------------------------------------------------
\* the lines of the output that ask a question
QuestionLines == {i \in 1..Len(output) : output[i].text = "Question"}

(* C33: when input_fn raises the interruption signal while the runner      *)
(* waits for an answer, the question being asked records no outcome: the   *)
(* outcome log and the SessionStats are the same as before that question   *)
(* was fetched, no further question is asked, and the statistics shown     *)
(* count only the answers actually obtained.                               *)
C33_InterruptedQuestionNotRecorded ==
    [][/\ pc = "fetch" => (results' = results /\ stats' = stats)
       /\ (pc = "input" /\ pc' = "stats") =>
              /\ results' = results /\ stats' = stats
              /\ Interrupted'
              /\ Len(asked') = Len(results') + 1
       /\ Interrupted =>
              /\ results' = results /\ stats' = stats
              /\ asked' = asked
              /\ QuestionLines' = QuestionLines
              /\ pc' \in {"stats", "done"}
       /\ (Interrupted /\ pc' = "done") =>
              /\ output'[Len(output')] = [text |-> "stats", arg |-> stats]
              /\ ret'.value = stats
              /\ stats.total_questions = Len(results)
              /\ stats.total_questions = Len(asked) - 1
              /\ CountersFollowLog(stats, results)]_vars

\* the third question was interrupted after a correct and an incorrect
\* answer, and the statistics were shown
C33_Witness ==
    /\ Interrupted
    /\ pc = "done"
    /\ Len(asked) = 3
    /\ Len(results) = 2
    /\ stats.correct_answers = 1
    /\ stats.incorrect_answers = 1
    /\ StatsLines # {}

---------------------------------------------------------------------------
\* the two lines that ask the card as question number n
QuestionPrompt(n, card) ==
    <<[text |-> "Question", arg |-> n],
      [text |-> IF is_acronym(card.term)
                THEN "What does stand for?"
                ELSE "What is?",
       arg |-> card.term]>>

(* C34: in a session driven by the runner get_next_question never raises   *)
(* StopIteration, in any mode: the runner calls get_next_question only     *)
(* directly after has_next_question returned True, and for each question   *)
(* the steps happen in the order fetch card, show prompt, read answer,     *)
(* submit_answer, show feedback, before the next has_next_question check.  *)
C34_RunnerNeverExhausted ==
    [][/\ pc' # "raised"
       /\ pc = "while" =>
              /\ ret'.op = "has_next_question"
              /\ Len(results) = Len(asked)
              /\ pc' = IF ret'.value THEN "fetch" ELSE "stats"
       /\ pc = "fetch" =>
              /\ ret.op = "has_next_question" /\ ret.value = TRUE
              /\ ret'.op = "get_next_question" /\ ret'.raised = "none"
              /\ asked' = Append(asked, ret'.value)
              /\ pc' = "input"
       /\ pc = "input" =>
              /\ ret.op = "get_next_question"
              /\ Len(asked) = Len(results) + 1
              /\ pc' \in {"while", "stats"}
              /\ pc' = "while" =>
                     /\ ret'.op = "submit_answer"
                     /\ ret'.args[1] = asked[Len(asked)]
                     /\ results' = Append(results, ret'.value)
       /\ results' # results => (pc = "input" /\ pc' = "while")
       /\ asked' # asked => pc = "fetch"
       /\ output' = output \o
              CASE pc = "start" -> <<Line("banner"), Line("Starting Quiz!"),
                                     Line("banner")>>
                [] pc = "while" -> <<>>
                [] pc = "fetch" ->
                       QuestionPrompt(Len(results) + 1, ret'.value)
                [] pc = "input" /\ pc' = "while" -> get_feedback(ret'.value)
                [] pc = "input" /\ pc' # "while" ->
                       <<Line("Quiz interrupted by user.")>>
                [] pc = "stats" -> <<[text |-> "stats", arg |-> stats]>>
                [] OTHER -> <<>>]_vars

\* a Random quiz of two cards ran to its end with one incorrect answer
C34_Witness ==
    /\ strategy.kind = "random"
    /\ pc = "done"
    /\ ~Interrupted
    /\ Len(flashcards) = 2
    /\ Len(asked) = 2
    /\ Len(results) = 2
    /\ ~results[1].is_correct
    /\ results[2].is_correct
    /\ Len(output) = 3 + 2 + 3 + 2 + 1 + 1

---------------------------------------------------------------------------
(* C35: submit_answer is not gated on the quiz state and never fails: for  *)
(* any card, whether or not it is the card last returned by                *)
(* get_next_question and whether or not it belongs to the card list, and   *)
(* any answer string, also while has_next_question is false, it records    *)
(* exactly one outcome and updates the statistics, so total_questions can  *)
(* exceed the number of cards.                                             *)
C35_SubmitAlwaysRecords ==
    [][ret'.op = "submit_answer" =>
          /\ ret'.raised = "none"
          /\ Len(results') = Len(results) + 1
          /\ IsPrefix(results, results')
          /\ results'[Len(results')].flashcard = ret'.args[1]
          /\ results'[Len(results')].user_answer = ret'.args[2]
          /\ stats'.total_questions = stats.total_questions + 1
          /\ stats'.total_questions = Len(results')
          /\ stats'.correct_answers + stats'.incorrect_answers
                 = stats'.total_questions]_vars

\* a Sequential engine of one card took three answers, the last two while
\* has_next_question was false, the last one for a card outside the list
\* and not the one asked
C35_Witness ==
    /\ strategy.kind = "sequential"
    /\ Len(flashcards) = 1
    /\ ret.op = "submit_answer"
    /\ ret.args[1] = ForeignCard
    /\ Len(results) = 3
    /\ results[3] = ret.value
    /\ results[2].flashcard = flashcards[1]
    /\ ~HasNextNow
    /\ stats.total_questions = 3
    /\ stats.total_questions > Len(flashcards)

---------------------------------------------------------------------------
(* C36: a freshly constructed engine with an empty outcome log has         *)
(* has_next_question() = True in every mode, and its statistics are        *)
(* total_questions 0, correct_answers 0, incorrect_answers 0 and an empty  *)
(* missed_terms.                                                           *)
C36_FreshEngine ==
    EngineExists =>
        /\ results = <<>>
        /\ stats.total_questions = 0
        /\ stats.correct_answers = 0
        /\ stats.incorrect_answers = 0
        /\ stats.missed_terms = <<>>
        /\ flashcards # <<>>
        /\ strategy \in {SequentialStrategy, RandomStrategy, AdaptiveStrategy}
        /\ \A shuffle \in ShuffleDraws(strategy, flashcards) :
               LET r == has_next_question(strategy, flashcards, results,
                                          shuffle)
               IN  r.raised = "none" /\ r.value = TRUE

\* an Adaptive engine was constructed on two loaded cards
C36_Witness ==
    /\ EngineExists
    /\ ret.op = "QuizEngine"
    /\ ret.raised = "none"
    /\ strategy.kind = "adaptive"
    /\ Len(flashcards) = 2
    /\ results = <<>>

---------------------------------------------------------------------------
\* the root of the document is one of the three shapes the loader reads:
\* an array, an object with the key "cards", an object with the key
\* "flashcards"
RootShape(data) ==
    IF data.type = "list" THEN "array"
    ELSE IF data.type = "dict" /\ data.cards # NoKey THEN "cards"
    ELSE IF data.type = "dict" /\ data.flashcards # NoKey THEN "flashcards"
    ELSE "other"

\* the value the root shape names as the card list
NamedList(data) ==
    CASE RootShape(data) = "array" -> List(data.items)
      [] RootShape(data) = "cards" -> data.cards
      [] RootShape(data) = "flashcards" -> data.flashcards
      [] OTHER -> NoKey

\* the two fields an element gives its card: front and back when both keys
\* are present, term and definition otherwise
FieldsOf(item) ==
    IF item.front # Absent /\ item.back # Absent
    THEN <<item.front, item.back>>
    ELSE <<item.term, item.definition>>

C37_WitnessArray ==
    /\ ret.op = "validate_and_parse"
    /\ ret.raised = "none"
    /\ ret.args[1].type = "list"
    /\ Len(ret.value) = 3
    /\ ret.value[1].term = HTTP
    /\ ret.value[2].term = DNS
    /\ ret.value[3].term = SSH

===========================================================================
